---- MODULE Spec2Model ----
(***************************************************************************)
(* Verification model of the scene simulation and reconciliation core:     *)
(*   - the rule engine hook useRuleTick (rules.ts): frame driver, tick,    *)
(*     cooldowns, pending structural operations and their debounced flush; *)
(*   - the retained-mode reconciler of the Pixi renderer (renderer-pixi.ts)*)
(*     syncNode / syncGroupChildren / removeDisplayObject.                 *)
(* Times are milliseconds.  Optional JS fields are sequences: <<>> when    *)
(* absent, <<v>> when present.                                             *)
(***************************************************************************)
EXTENDS Integers, Sequences, FiniteSets, TLC

\* ─── Bounds of the model ────────────────────────────────────────────────
StepMs == 150
MaxSteps == 3
MaxRenders == 2
EpochOffset == 1000
MaxPasses == 2

\* ─── Program constants ──────────────────────────────────────────────────
FlushDelayMs == 300

None == <<>>
Some(v) == <<v>>
Undefined == "undefined"

\* Outcomes of Math.random(), in percent of the unit interval [0, 1).
RandomDraws == {0, 50, 99}

\* ─── Scene documents (rule engine side) ─────────────────────────────────
\* A node's own fields.  A group's children live in the scene's `kids` map
\* under the group's id: the children array is shared by every shallow copy
\* ({...node}) of the group object, so it is addressed by id, not by value.
Node(id, type, name, entityType, x) ==
  [id |-> id, type |-> type, name |-> name, entityType |-> entityType,
   x |-> x, y |-> 0, rotation |-> 0, style |-> Undefined, mood |-> Undefined,
   n |-> None, tween |-> None]

RootNode == Node("root", "group", "root", Undefined, 0)

SceneA ==
  [root |-> RootNode,
   kids |-> [g \in {"root", "g1"} |->
               IF g = "root"
               THEN << Node("f1", "circle", "f1", "fish", 0),
                       Node("g1", "group", "g1", Undefined, 0) >>
               ELSE << Node("f2", "rect", "f2", "fish", 100) >>]]

SceneB ==
  [root |-> RootNode,
   kids |-> [g \in {"root"} |-> << Node("f1", "circle", "f1", "fish", 0) >>]]

Scenes == {SceneA, SceneB}

RECURSIVE walkNodes(_, _)
RECURSIVE walkSeq(_, _, _)
walkNodes(kids, node) ==
  <<node>> \o (IF node.type = "group" /\ node.id \in DOMAIN kids
               THEN walkSeq(kids, kids[node.id], 1)
               ELSE <<>>)
walkSeq(kids, children, i) ==
  IF i > Len(children) THEN <<>>
  ELSE walkNodes(kids, children[i]) \o walkSeq(kids, children, i + 1)

collectNodes(sc) == walkNodes(sc.kids, sc.root)

\* ─── Selector matching ──────────────────────────────────────────────────
\* A selector string is a sequence of tokens; ":" and " " are tokens.
RECURSIVE trimLeft(_)
trimLeft(s) == IF s /= <<>> /\ Head(s) = " " THEN trimLeft(Tail(s)) ELSE s
RECURSIVE trimRight(_)
trimRight(s) ==
  IF s /= <<>> /\ s[Len(s)] = " " THEN trimRight(SubSeq(s, 1, Len(s) - 1)) ELSE s
trim(s) == trimRight(trimLeft(s))

indexOfColon(s) ==
  IF \E i \in 1..Len(s) : s[i] = ":"
  THEN CHOOSE i \in 1..Len(s) : s[i] = ":" /\ \A j \in 1..(i - 1) : s[j] /= ":"
  ELSE 0

\* A field's string as the sequence a selector is; an absent field is no string.
chars(str) == IF str = "" THEN << >> ELSE << str >>

isString(field) == field /= Undefined

\* node.entityType stands for node.data?.entityType and node.tags for
\* node.data?.tags when it is an array; "*" tests truthiness (!!).
nodeMatchesSelector(node, selector) ==
  LET s == trim(selector)
      colon == indexOfColon(s)
      prefix == SubSeq(s, 1, colon - 1)
      value == SubSeq(s, colon + 1, Len(s))
  IN IF s = <<"*">> THEN node.entityType \notin {Undefined, ""}
     ELSE IF colon = 0 THEN FALSE
     ELSE IF prefix = <<"entityType">>
     THEN isString(node.entityType) /\ value = chars(node.entityType)
     ELSE IF prefix = <<"tag">>
     THEN "tags" \in DOMAIN node /\ \E i \in 1..Len(node.tags) : value = chars(node.tags[i])
     ELSE IF prefix = <<"name">> THEN isString(node.name) /\ value = chars(node.name)
     ELSE IF prefix = <<"type">> THEN isString(node.type) /\ value = chars(node.type)
     ELSE FALSE

\* ─── Rules ──────────────────────────────────────────────────────────────
Cond(selector, cooldownMs) ==
  [selector |-> selector, state |-> None, proximity |-> None,
   cooldownMs |-> cooldownMs, probability |-> None]

Effect(type) ==
  [type |-> type, dx |-> None, dy |-> None, dRotation |-> None,
   styleUpdates |-> None, dataUpdates |-> None, field |-> None, delta |-> None,
   spawnNode |-> None, tween |-> None, variance |-> None, probability |-> None]

Rule(id, enabled, trigger, condition, effect) ==
  [id |-> id, enabled |-> enabled, trigger |-> trigger,
   condition |-> condition, effect |-> effect]

Fish == <<"entityType", ":", "fish">>

RuleDx == Rule("dx", TRUE, "tick", Cond(Fish, None), [Effect("transform") EXCEPT !.dx = Some(2)])
RuleDy == Rule("dy", TRUE, "tick", Cond(Fish, None), [Effect("transform") EXCEPT !.dy = Some(3)])
RuleCount ==
  Rule("count", TRUE, "tick", Cond(<<" ", "*">>, Some(2 * StepMs)),
       [Effect("counter") EXCEPT !.field = Some("n"), !.delta = Some(1)])
RuleRemove ==
  Rule("remove", TRUE, "tick",
       [Cond(Fish, Some(2 * StepMs)) EXCEPT !.proximity = Some([target |-> <<"type", ":", "group">>, distance |-> 50])],
       Effect("remove"))
RuleSpawn ==
  Rule("spawn", TRUE, "tick", Cond(<<"name", ":", "f1">>, None),
       [Effect("spawn") EXCEPT !.spawnNode = Some([type |-> "circle", spawnOffset |-> Some([x |-> 10, y |-> 0])])])
RuleTween ==
  Rule("tween", TRUE, "tick", [Cond(Fish, None) EXCEPT !.state = Some([key |-> "mood", value |-> "calm"])],
       [Effect("tween") EXCEPT !.tween = Some([property |-> "transform.x", from |-> 0, to |-> 10, duration |-> 100])])
RuleMood ==
  Rule("mood", TRUE, "tick", [Cond(<<"name", ":", "f1">>, None) EXCEPT !.probability = Some(50)],
       [Effect("data") EXCEPT !.dataUpdates = Some("calm")])
RuleStyle ==
  Rule("style", TRUE, "tick", Cond(<<"type", ":", "group">>, None),
       [Effect("style") EXCEPT !.styleUpdates = Some("red")])
RuleJitter ==
  Rule("jitter", TRUE, "tick", Cond(<<"name", ":", "f2">>, Some(3 * StepMs)),
       [Effect("transform") EXCEPT !.dx = Some(100), !.variance = Some(50), !.probability = Some(50)])
RuleOff == Rule("off", FALSE, "tick", Cond(Fish, None), [Effect("transform") EXCEPT !.dx = Some(1)])
RuleTimer == Rule("timer", TRUE, "timer", Cond(Fish, None), [Effect("transform") EXCEPT !.dx = Some(1)])

\* The rule arrays the host may pass as the `rules` prop.
RuleSets ==
  { <<RuleOff, RuleTimer>>,
    <<RuleDx, RuleDy, RuleCount, RuleStyle>>,
    <<RuleRemove, RuleSpawn>>,
    <<RuleMood, RuleTween, RuleJitter>> }

TickSpeeds == {StepMs, 2 * StepMs}

\* ─── Internal utilities ─────────────────────────────────────────────────
nodePos(node) == [x |-> node.x, y |-> node.y]

\* dist(a, b) <= d, with the square root removed (d >= 0)
distWithin(a, b, d) ==
  (a.x - b.x) * (a.x - b.x) + (a.y - b.y) * (a.y - b.y) <= d * d

\* v * (1 + (Math.random() * 2 - 1) * variance); variance and the draw in percent
applyVariance(v, variance) ==
  IF variance <= 0 THEN {v}
  ELSE { (v * (10000 + (2 * d - 100) * variance)) \div 10000 : d \in RandomDraws }

OrElse(opt, default) == IF opt = None THEN default ELSE opt[1]

dataField(node, k) ==
  IF k = "entityType" THEN node.entityType
  ELSE IF k = "mood" THEN node.mood
  ELSE Undefined

\* ─── Condition check ────────────────────────────────────────────────────
conditionHolds(rule, node, allNodes, now, cooldowns) ==
  LET cond == rule.condition IN
  /\ nodeMatchesSelector(node, cond.selector)
  /\ cond.state /= None => dataField(node, cond.state[1].key) = cond.state[1].value
  /\ cond.proximity /= None =>
       \E i \in 1..Len(allNodes) :
         /\ allNodes[i].id /= node.id
         /\ nodeMatchesSelector(allNodes[i], cond.proximity[1].target)
         /\ distWithin(nodePos(node), nodePos(allNodes[i]), cond.proximity[1].distance)
  /\ (cond.cooldownMs /= None /\ cond.cooldownMs[1] /= 0) =>
       LET last == IF rule.id \in DOMAIN cooldowns /\ node.id \in DOMAIN cooldowns[rule.id]
                   THEN cooldowns[rule.id][node.id] ELSE 0
       IN ~(now - last < cond.cooldownMs[1])

\* The set of results checkCondition can return (the probability gate draws).
checkCondition(rule, node, allNodes, now, cooldowns) ==
  IF ~conditionHolds(rule, node, allNodes, now, cooldowns) THEN {FALSE}
  ELSE IF rule.condition.probability = None THEN {TRUE}
  ELSE { ~(d > rule.condition.probability[1]) : d \in RandomDraws }

\* ─── Apply effect ───────────────────────────────────────────────────────
PendingOp(op, node, parentPos, nodeId) ==
  [op |-> op, node |-> node, parentPos |-> parentPos, nodeId |-> nodeId, serial |-> 0]

\* The set of results applyEffect can return: the replacement node (None for
\* null) and the pending list after the call.
applyEffectBody(rule, node, pending, dateNow) ==
  LET eff == rule.effect
      variance == OrElse(eff.variance, 0)
      unchanged == [modified |-> None, pending |-> pending]
  IN
  CASE eff.type = "transform" ->
         { IF eff.dx = None /\ eff.dy = None /\ eff.dRotation = None THEN unchanged
           ELSE [modified |-> Some([node EXCEPT !.x = @ + ax, !.y = @ + ay, !.rotation = @ + ar]),
                 pending |-> pending] :
           ax \in (IF eff.dx = None THEN {0} ELSE applyVariance(eff.dx[1], variance)),
           ay \in (IF eff.dy = None THEN {0} ELSE applyVariance(eff.dy[1], variance)),
           ar \in (IF eff.dRotation = None THEN {0} ELSE applyVariance(eff.dRotation[1], variance)) }
    [] eff.type = "style" ->
         { IF eff.styleUpdates = None THEN unchanged
           ELSE [modified |-> Some([node EXCEPT !.style = eff.styleUpdates[1]]), pending |-> pending] }
    [] eff.type = "data" ->
         { IF eff.dataUpdates = None THEN unchanged
           ELSE [modified |-> Some([node EXCEPT !.mood = eff.dataUpdates[1]]), pending |-> pending] }
    [] eff.type = "counter" ->
         IF eff.field = None \/ eff.delta = None THEN {unchanged}
         ELSE { [modified |-> Some([node EXCEPT !.n = Some(OrElse(node.n, 0) + delta)]),
                 pending |-> pending] : delta \in applyVariance(eff.delta[1], variance) }
    [] eff.type = "tween" ->
         { IF eff.tween = None THEN unchanged
           ELSE [modified |-> Some([node EXCEPT !.tween = Some([def |-> eff.tween[1], startedAt |-> dateNow])]),
                 pending |-> pending] }
    [] eff.type = "spawn" ->
         { IF eff.spawnNode = None THEN unchanged
           ELSE [modified |-> None,
                 pending |-> Append(pending, PendingOp("spawn", eff.spawnNode, nodePos(node), Undefined))] }
    [] eff.type = "remove" ->
         { [modified |-> None,
            pending |-> Append(pending, PendingOp("remove", None, nodePos(node), node.id))] }
    [] OTHER -> {unchanged}

applyEffect(rule, node, pending, dateNow) ==
  LET p == rule.effect.probability IN
  (IF p /= None /\ \E d \in RandomDraws : d > p[1]
   THEN {[modified |-> None, pending |-> pending]} ELSE {})
  \cup
  (IF p = None \/ \E d \in RandomDraws : ~(d > p[1])
   THEN applyEffectBody(rule, node, pending, dateNow) ELSE {})

\* ─── Scene mutation helper ──────────────────────────────────────────────
RECURSIVE replaceNodeFrom(_, _, _, _, _)
replaceNodeFrom(kids, gid, i, id, replacement) ==
  IF gid \notin DOMAIN kids \/ i > Len(kids[gid]) THEN [found |-> FALSE, kids |-> kids]
  ELSE LET c == kids[gid][i] IN
       IF c.id = id
       THEN [found |-> TRUE, kids |-> [kids EXCEPT ![gid][i] = replacement]]
       ELSE IF c.type = "group"
       THEN LET r == replaceNodeFrom(kids, c.id, 1, id, replacement) IN
            IF r.found THEN r ELSE replaceNodeFrom(kids, gid, i + 1, id, replacement)
       ELSE replaceNodeFrom(kids, gid, i + 1, id, replacement)

\* Mutant: the node found is spliced out instead of being replaced.
RECURSIVE replaceNodeSplice(_, _, _, _)
replaceNodeSplice(kids, gid, i, id) ==
  IF gid \notin DOMAIN kids \/ i > Len(kids[gid]) THEN [found |-> FALSE, kids |-> kids]
  ELSE LET c == kids[gid][i] IN
       IF c.id = id
       THEN [found |-> TRUE,
             kids |-> [kids EXCEPT ![gid] = SubSeq(@, 1, i - 1) \o SubSeq(@, i + 1, Len(@))]]
       ELSE IF c.type = "group"
       THEN LET r == replaceNodeSplice(kids, c.id, 1, id) IN
            IF r.found THEN r ELSE replaceNodeSplice(kids, gid, i + 1, id)
       ELSE replaceNodeSplice(kids, gid, i + 1, id)

replaceNode_splices(kids, group, id, replacement) ==
  replaceNodeSplice(kids, group.id, 1, id)

replaceNode(kids, group, id, replacement) ==
  replaceNodeFrom(kids, group.id, 1, id, replacement)

\* ─── useRuleTick: state of one mounted hook instance ────────────────────
VARIABLES
  mounted,        \* the component using the hook is mounted
  scene,          \* prop: the authoritative scene
  rules,          \* prop: the rule array
  worldMeta,      \* prop: [paused, tickSpeed]
  simScene,       \* React state: the published (simulated) scene
  stats,          \* React state: RuleStats of the last tick
  rafRef,         \* rafRef.current, 0 for null
  frames,         \* frame callbacks requested and not yet run or cancelled
  effectCleanup,  \* the main effect's last run returned a cleanup function
  lastTickRef,    \* lastTickRef.current
  tickCountRef,   \* tickCountRef.current
  cooldownsRef,   \* cooldownsRef.current: ruleId -> nodeId -> time
  pendingOpsRef,  \* pendingOpsRef.current
  batchTimerRef,  \* batchTimerRef.current, 0 for null
  timers,         \* timeouts set and not yet fired or cleared
  clock,          \* performance.now()
  toolCalls,      \* the scene.batch calls issued so far, each its operations
  queuedCount,    \* history: number of structural operations queued so far
  lastTick,       \* history: what the last evaluated tick did
  renders,        \* number of re-renders with changed props so far
  fireLog         \* history: <<ruleId, nodeId, time>> of every firing so far

hookVars ==
  << mounted, scene, rules, worldMeta, simScene, stats, rafRef, frames,
     effectCleanup, lastTickRef, tickCountRef, cooldownsRef, pendingOpsRef,
     batchTimerRef, timers, clock, toolCalls, queuedCount, lastTick, renders,
     fireLog >>

\* ─── State of one mounted PixiSceneRenderer ─────────────────────────────
VARIABLES
  doc,       \* the scene of the last syncScene
  objs,      \* the live display objects: meta, parent, children
  nodeMap,   \* ctx.nodeMap: node id -> display object
  passes,    \* number of syncScene passes after the initial one
  lastPass   \* history: the objects the last pass created and destroyed, and
             \* whether it ended by an exception

reconVars == << doc, objs, nodeMap, passes, lastPass >>

\* ─── State seen by the tool handlers ────────────────────────────────────
VARIABLES
  ctxState,  \* ctx.state: the shared state the handlers read and publish
  callCount, \* number of tool calls made so far
  lastCall,  \* history: the last tool call, its outcome and its publications
  probe      \* a pure function applied to one input, with its result

toolVars == << ctxState, callCount, lastCall >>

NoCall == [tool |-> "none"]

\* No tool has been called and no pure function has been applied.
ToolsIdle ==
  /\ ctxState = [_scene |-> None, _rules |-> None, _worldMeta |-> None]
  /\ callCount = 0
  /\ lastCall = NoCall
  /\ probe = [fn |-> "none"]

VARIABLES
  pnode,            \* the particles node of the scene handed to the renderer
  particleStateRef, \* useParticleTick: the particle list kept for that node
  frameCount,       \* number of animation frames run so far
  lastFrame         \* history: the last frame, its inputs and its particle list

particleVars == << pnode, particleStateRef, frameCount, lastFrame >>

VARIABLES
  agentState,     \* ctx.state of the agent protocol tools
  agentCalls,     \* number of agent protocol calls made so far
  lastAgentCall   \* history: the last agent protocol call and its error

agentVars == << agentState, agentCalls, lastAgentCall >>

VARIABLES
  uptime,      \* ms since the page's time origin
  armedTween,  \* the tween of a node once it is armed
  displayed        \* history: the last value a render path displayed

tweenVars == << uptime, armedTween, displayed >>

simVars == << particleVars, agentVars, tweenVars >>

NoFrame == [path |-> "none"]

SimIdle ==
  /\ pnode = [emitters |-> << >>, maxParticles |-> None, _particles |-> None]
  /\ particleStateRef = None
  /\ frameCount = 0
  /\ lastFrame = NoFrame
  /\ agentState = [_agentProposals |-> None, _agentMessages |-> None]
  /\ agentCalls = 0
  /\ lastAgentCall = [tool |-> "none"]
  /\ uptime = 0
  /\ armedTween = None
  /\ displayed = [path |-> "none"]

DateNow == clock + EpochOffset

Min(S) == CHOOSE x \in S : \A y \in S : x <= y

\* A handle not in use: the platform's handles are unique among the
\* outstanding requests.
newHandle(used) == Min({h \in 1..(Cardinality(used) + 1) : h \notin used})

handlesOf(S) == {e.h : e \in S}

requestAnimationFrame(frs, h, tickRules, tickSpeed) ==
  frs \cup {[h |-> h, tickRules |-> tickRules, tickSpeed |-> tickSpeed]}

cancelAnimationFrame(frs, h) == {f \in frs : f.h /= h}

clearTimeout(tms, h) == {t \in tms : t.h /= h}

\* ─── One tick: the updater passed to setSimScene ────────────────────────
withCooldown(cooldowns, ruleId, nodeId, now) ==
  [r \in DOMAIN cooldowns |->
     IF r = ruleId
     THEN [k \in DOMAIN cooldowns[r] \cup {nodeId} |->
             IF k = nodeId THEN now ELSE cooldowns[r][k]]
     ELSE cooldowns[r]]

ensureCooldownMap(cooldowns, ruleId) ==
  IF ruleId \in DOMAIN cooldowns THEN cooldowns
  ELSE [r \in DOMAIN cooldowns \cup {ruleId} |->
          IF r = ruleId THEN [k \in {} |-> 0] ELSE cooldowns[r]]

\* The body of `for (const node of allNodes)` for one node: the accumulators
\* after it, one per outcome of the random draws.
evalNode(rule, node, allNodes, root, now, dateNow, acc) ==
  UNION {
    IF ~ok THEN {acc}
    ELSE { IF r.modified /= None
           THEN [acc EXCEPT
                   !.kids = replaceNode(acc.kids, root, node.id, r.modified[1]).kids,
                   !.nodesAffected = @ + 1,
                   !.fired = TRUE,
                   !.cooldowns = withCooldown(acc.cooldowns, rule.id, node.id, now),
                   !.applied = @ \cup {<<rule.id, node.id>>}]
           ELSE [acc EXCEPT
                   !.pending = r.pending,
                   !.fired = (@ \/ rule.effect.type \in {"spawn", "remove"}),
                   !.queued = IF r.pending /= acc.pending
                              THEN @ \cup {<<rule.id, node.id>>} ELSE @]
           : r \in applyEffect(rule, node, acc.pending, dateNow) }
    : ok \in checkCondition(rule, node, allNodes, now, acc.cooldowns) }

RECURSIVE evalNodes(_, _, _, _, _, _, _)
evalNodes(rule, allNodes, i, root, now, dateNow, accs) ==
  IF i > Len(allNodes) THEN accs
  ELSE evalNodes(rule, allNodes, i + 1, root, now, dateNow,
         UNION { evalNode(rule, allNodes[i], allNodes, root, now, dateNow, a) : a \in accs })

RECURSIVE evalRules(_, _, _, _, _, _, _)
evalRules(tickRules, j, allNodes, root, now, dateNow, accs) ==
  IF j > Len(tickRules) THEN accs
  ELSE LET rule == tickRules[j]
           started == { [a EXCEPT !.cooldowns = ensureCooldownMap(a.cooldowns, rule.id),
                                  !.rulesEvaluated = @ + 1,
                                  !.fired = FALSE] : a \in accs }
           done == evalNodes(rule, allNodes, 1, root, now, dateNow, started)
       IN evalRules(tickRules, j + 1, allNodes, root, now, dateNow,
            { [a EXCEPT !.rulesFired = IF a.fired THEN @ + 1 ELSE @] : a \in done })

\* cloneScene is a JSON round trip: a deep copy with the same content.
cloneScene(sc) == sc

tickOutcomes(prevScene, tickRules, now, dateNow, cooldowns) ==
  LET working == cloneScene(prevScene)
      allNodes == collectNodes(working)
  IN evalRules(tickRules, 1, allNodes, working.root, now, dateNow,
       { [kids |-> working.kids, cooldowns |-> cooldowns, pending |-> <<>>,
          rulesEvaluated |-> 0, rulesFired |-> 0, nodesAffected |-> 0,
          fired |-> FALSE, applied |-> {}, queued |-> {}] })

\* ─── Batched structural operations ──────────────────────────────────────
tagSerials(pending, base) ==
  [i \in 1..Len(pending) |-> [pending[i] EXCEPT !.serial = base + i]]

\* op.node.spawnOffset?.x ?? (Math.random() - 0.5) * 60
spawnOffsets(template, axis) ==
  IF template.spawnOffset /= None THEN {template.spawnOffset[1][axis]}
  ELSE { ((d - 50) * 60) \div 100 : d \in RandomDraws }

batchOpsOf(op) ==
  IF op.op = "spawn"
  THEN { [op |-> "add", type |-> op.node[1].type, id |-> "uid",
          x |-> op.parentPos.x + ox, y |-> op.parentPos.y + oy,
          nodeIds |-> <<>>, serial |-> op.serial] :
         ox \in spawnOffsets(op.node[1], "x"), oy \in spawnOffsets(op.node[1], "y") }
  ELSE IF op.op = "remove"
  THEN { [op |-> "remove", type |-> Undefined, id |-> Undefined, x |-> 0, y |-> 0,
          nodeIds |-> <<op.nodeId>>, serial |-> op.serial] }
  ELSE {}

RECURSIVE batchOpsFrom(_, _)
batchOpsFrom(ops, i) ==
  IF i > Len(ops) THEN {<<>>}
  ELSE LET rest == batchOpsFrom(ops, i + 1)
           here == batchOpsOf(ops[i])
       IN IF here = {} THEN rest
          ELSE { <<b>> \o r : b \in here, r \in rest }

\* flushPending: the possible (pendingOpsRef, toolCalls) after the call.
flushPending(ops, calls) ==
  IF Len(ops) = 0 THEN {[pendingOps |-> ops, toolCalls |-> calls]}
  ELSE { [pendingOps |-> <<>>,
          toolCalls |-> IF Len(batchOps) > 0 THEN Append(calls, batchOps) ELSE calls] :
         batchOps \in batchOpsFrom(ops, 1) }

\* Mutant: a new timeout is set although one is outstanding.
scheduleBatchFlush_noGuard(timerRef, tms, now) ==
  LET h == newHandle(handlesOf(tms)) IN
  [batchTimerRef |-> h, timers |-> tms \cup {[h |-> h, due |-> now + FlushDelayMs]}]

\* scheduleBatchFlush: (batchTimerRef, timers) after the call.
scheduleBatchFlush(timerRef, tms, now) ==
  IF timerRef /= 0 THEN [batchTimerRef |-> timerRef, timers |-> tms]
  ELSE LET h == newHandle(handlesOf(tms)) IN
       [batchTimerRef |-> h, timers |-> tms \cup {[h |-> h, due |-> now + FlushDelayMs]}]

\* ─── Effects of the hook ────────────────────────────────────────────────
tickRulesOf(rs) == SelectSeq(rs, LAMBDA r : r.enabled /\ r.trigger = "tick")

\* The cleanup returned by the main effect: cancel the outstanding frame.
mainEffectCleanup(raf, frs) ==
  IF raf /= 0 THEN cancelAnimationFrame(frs, raf) ELSE frs

\* Mutant: the paused flag is not consulted.
mainEffect_ignoresPaused(rs, meta, raf, frs, last, now) ==
  LET tickRules == tickRulesOf(rs)
      h == newHandle(handlesOf(frs))
  IN IF Len(tickRules) = 0
     THEN [rafRef |-> 0,
           frames |-> IF raf /= 0 THEN cancelAnimationFrame(frs, raf) ELSE frs,
           effectCleanup |-> FALSE, lastTickRef |-> last]
     ELSE [rafRef |-> h,
           frames |-> requestAnimationFrame(frs, h, tickRules, meta.tickSpeed),
           effectCleanup |-> TRUE, lastTickRef |-> now]

\* The body of the main effect, run on mount and whenever rules,
\* worldMeta.paused or worldMeta.tickSpeed change.
mainEffect(rs, meta, raf, frs, last, now) ==
  LET stopped == [rafRef |-> 0,
                  frames |-> IF raf /= 0 THEN cancelAnimationFrame(frs, raf) ELSE frs,
                  effectCleanup |-> FALSE, lastTickRef |-> last]
      tickRules == tickRulesOf(rs)
      h == newHandle(handlesOf(frs))
  IN IF meta.paused THEN stopped
     ELSE IF Len(tickRules) = 0 THEN stopped
     ELSE [rafRef |-> h,
           frames |-> requestAnimationFrame(frs, h, tickRules, meta.tickSpeed),
           effectCleanup |-> TRUE, lastTickRef |-> now]

\* Mutant: the pending timeout is left running.
batchTimerCleanup_keepsTimer(timerRef, tms) == tms

\* The cleanup of the batch-timer effect (runs on unmount only).
batchTimerCleanup(timerRef, tms) ==
  IF timerRef /= 0 THEN clearTimeout(tms, timerRef) ELSE tms

RerunMainEffect(rs, meta) ==
  LET cleaned == IF effectCleanup THEN mainEffectCleanup(rafRef, frames) ELSE frames
      r == mainEffect(rs, meta, rafRef, cleaned, lastTickRef, clock)
  IN /\ rafRef' = r.rafRef
     /\ frames' = r.frames
     /\ effectCleanup' = r.effectCleanup
     /\ lastTickRef' = r.lastTickRef

NoStats == [rulesEvaluated |-> 0, rulesFired |-> 0, nodesAffected |-> 0, ticksElapsed |-> 0]

HookInit ==
  /\ mounted = TRUE
  /\ scene = SceneA
  /\ rules \in RuleSets
  /\ worldMeta \in [paused : BOOLEAN, tickSpeed : TickSpeeds]
  /\ simScene = scene
  /\ stats = NoStats
  /\ clock = 0
  /\ LET r == mainEffect(rules, worldMeta, 0, {}, 0, clock) IN
       /\ rafRef = r.rafRef
       /\ frames = r.frames
       /\ effectCleanup = r.effectCleanup
       /\ lastTickRef = r.lastTickRef
  /\ tickCountRef = 0
  /\ cooldownsRef = [r \in {} |-> 0]
  /\ pendingOpsRef = <<>>
  /\ batchTimerRef = 0
  /\ timers = {}
  /\ toolCalls = <<>>
  /\ queuedCount = 0
  /\ lastTick = None
  /\ renders = 0
  /\ fireLog = {}

\* The host re-renders with a new rules array.
SetRules(rs) ==
  /\ mounted
  /\ renders < MaxRenders
  /\ renders' = renders + 1
  /\ rules' = rs
  /\ RerunMainEffect(rs, worldMeta)
  /\ UNCHANGED << mounted, scene, worldMeta, simScene, stats, tickCountRef, cooldownsRef,
                  pendingOpsRef, batchTimerRef, timers, clock, toolCalls, queuedCount,
                  lastTick, fireLog >>
  /\ UNCHANGED << reconVars, toolVars, probe, simVars >>

\* The host re-renders with changed world metadata (paused or tickSpeed).
SetWorldMeta(meta) ==
  /\ mounted
  /\ renders < MaxRenders
  /\ renders' = renders + 1
  /\ meta /= worldMeta
  /\ worldMeta' = meta
  /\ RerunMainEffect(rules, meta)
  /\ UNCHANGED << mounted, scene, rules, simScene, stats, tickCountRef, cooldownsRef,
                  pendingOpsRef, batchTimerRef, timers, clock, toolCalls, queuedCount,
                  lastTick, fireLog >>
  /\ UNCHANGED << reconVars, toolVars, probe, simVars >>

\* The host re-renders with a new scene: "Sync scene from props when it changes".
SetScene(sc) ==
  /\ mounted
  /\ renders < MaxRenders
  /\ renders' = renders + 1
  /\ sc /= scene
  /\ scene' = sc
  /\ simScene' = sc
  /\ UNCHANGED << mounted, rules, worldMeta, stats, rafRef, frames, effectCleanup,
                  lastTickRef, tickCountRef, cooldownsRef, pendingOpsRef, batchTimerRef,
                  timers, clock, toolCalls, queuedCount, lastTick, fireLog >>
  /\ UNCHANGED << reconVars, toolVars, probe, simVars >>

\* A frame callback runs before tickSpeed has elapsed: it only re-arms itself.
FrameSkip(f) ==
  /\ f \in frames
  /\ clock - lastTickRef < f.tickSpeed
  /\ LET h == newHandle(handlesOf(frames \ {f})) IN
       /\ rafRef' = h
       /\ frames' = requestAnimationFrame(frames \ {f}, h, f.tickRules, f.tickSpeed)
  /\ UNCHANGED << mounted, scene, rules, worldMeta, simScene, stats, effectCleanup,
                  lastTickRef, tickCountRef, cooldownsRef, pendingOpsRef, batchTimerRef,
                  timers, clock, toolCalls, queuedCount, lastTick, renders, fireLog >>
  /\ UNCHANGED << reconVars, toolVars, probe, simVars >>

\* A frame callback runs one tick: evaluate the rules against a working copy,
\* publish it, queue the structural operations, re-arm the frame.
FrameTick(f) ==
  /\ f \in frames
  /\ ~(clock - lastTickRef < f.tickSpeed)
  /\ lastTickRef' = clock
  /\ tickCountRef' = tickCountRef + 1
  /\ \E out \in tickOutcomes(simScene, f.tickRules, clock, DateNow, cooldownsRef) :
       LET sched == IF Len(out.pending) > 0
                    THEN scheduleBatchFlush(batchTimerRef, timers, clock)
                    ELSE [batchTimerRef |-> batchTimerRef, timers |-> timers]
       IN /\ simScene' = [root |-> simScene.root, kids |-> out.kids]
          /\ cooldownsRef' = out.cooldowns
          /\ pendingOpsRef' = pendingOpsRef \o tagSerials(out.pending, queuedCount)
          /\ queuedCount' = queuedCount + Len(out.pending)
          /\ batchTimerRef' = sched.batchTimerRef
          /\ timers' = sched.timers
          /\ stats' = [rulesEvaluated |-> out.rulesEvaluated, rulesFired |-> out.rulesFired,
                       nodesAffected |-> out.nodesAffected, ticksElapsed |-> tickCountRef']
          /\ lastTick' = Some([at |-> clock, prev |-> simScene, published |-> simScene',
                               tickRules |-> f.tickRules,
                               applied |-> out.applied, queued |-> out.queued,
                               nQueued |-> Len(out.pending), wasMounted |-> mounted])
          /\ fireLog' = fireLog \cup {<<p[1], p[2], clock>> : p \in out.applied \cup out.queued}
  /\ LET h == newHandle(handlesOf(frames \ {f})) IN
       /\ rafRef' = h
       /\ frames' = requestAnimationFrame(frames \ {f}, h, f.tickRules, f.tickSpeed)
  /\ UNCHANGED << mounted, scene, rules, worldMeta, effectCleanup, clock, toolCalls, renders >>
  /\ UNCHANGED << reconVars, toolVars, probe, simVars >>

\* The debounce timeout fires: batchTimerRef.current = null; flushPending().
TimerFire(t) ==
  /\ t \in timers
  /\ t.due <= clock
  /\ timers' = timers \ {t}
  /\ batchTimerRef' = 0
  /\ \E r \in flushPending(pendingOpsRef, toolCalls) :
       /\ pendingOpsRef' = r.pendingOps
       /\ toolCalls' = r.toolCalls
  /\ UNCHANGED << mounted, scene, rules, worldMeta, simScene, stats, rafRef, frames,
                  effectCleanup, lastTickRef, tickCountRef, cooldownsRef, clock,
                  queuedCount, lastTick, renders, fireLog >>
  /\ UNCHANGED << reconVars, toolVars, probe, simVars >>

\* The component unmounts: every effect's cleanup runs.
Unmount ==
  /\ mounted
  /\ mounted' = FALSE
  /\ frames' = IF effectCleanup THEN mainEffectCleanup(rafRef, frames) ELSE frames
  /\ timers' = batchTimerCleanup(batchTimerRef, timers)
  /\ UNCHANGED << scene, rules, worldMeta, simScene, stats, rafRef, effectCleanup,
                  lastTickRef, tickCountRef, cooldownsRef, pendingOpsRef, batchTimerRef,
                  clock, toolCalls, queuedCount, lastTick, renders, fireLog >>
  /\ UNCHANGED << reconVars, toolVars, probe, simVars >>

\* Time passes; a due timeout fires before the clock moves on.
Advance ==
  /\ clock + StepMs <= MaxSteps * StepMs
  /\ \A t \in timers : t.due > clock
  /\ clock' = clock + StepMs
  /\ UNCHANGED << mounted, scene, rules, worldMeta, simScene, stats, rafRef, frames,
                  effectCleanup, lastTickRef, tickCountRef, cooldownsRef, pendingOpsRef,
                  batchTimerRef, timers, toolCalls, queuedCount, lastTick, renders, fireLog >>
  /\ UNCHANGED << reconVars, toolVars, probe, simVars >>

\* ─── Pixi renderer: documents handed to the reconciler ──────────────────
\* A node carries its id, its type and `v`, which stands for all its other
\* own fields (transform, style, geometry); a group also its children.
LeafNode(id, type, v) == [id |-> id, type |-> type, v |-> v]
GroupNode(id, v, children) == [id |-> id, type |-> "group", v |-> v, children |-> children]

ANodes == {LeafNode("a", "rect", 0), LeafNode("a", "rect", 1), LeafNode("a", "circle", 0)}
GroupKids == {<<>>} \cup {<<a>> : a \in ANodes}
G1Nodes == {GroupNode("g1", v, c) : v \in {0, 1}, c \in GroupKids}
G2Nodes == {GroupNode("g2", 0, c) : c \in GroupKids}
TopNodes == ANodes \cup G1Nodes \cup G2Nodes

RECURSIVE idsOfNode(_)
RECURSIVE idsOfSeq(_)
idsOfNode(node) ==
  <<node.id>> \o (IF node.type = "group" THEN idsOfSeq(node.children) ELSE <<>>)
idsOfSeq(nodes) ==
  IF nodes = <<>> THEN <<>> ELSE idsOfNode(Head(nodes)) \o idsOfSeq(Tail(nodes))

uniqueIds(ids) == \A i \in 1..Len(ids) : \A j \in 1..Len(ids) : ids[i] = ids[j] => i = j

\* Every scene over the node universe whose ids are unique across the tree.
Docs ==
  { GroupNode("root", 0, s) :
      s \in { t \in UNION {[1..k -> TopNodes] : k \in 0..3} : uniqueIds(idsOfSeq(t)) } }

\* Scenes with nodes whose render object is hard to build: a polyline without
\* points, an image whose href resolves to no texture.
PolylineNode(id, points) == [id |-> id, type |-> "polyline", v |-> 0, points |-> points]
ImageNode(id, href) == [id |-> id, type |-> "image", v |-> 0, href |-> href]

HardLeaves ==
  {LeafNode("a", "rect", 0), PolylineNode("p", Undefined), PolylineNode("p", "0,0 9,9"),
   ImageNode("i", "missing.png")}
HardKids == {<<>>, <<PolylineNode("p", Undefined)>>}
HardTop == HardLeaves \cup {GroupNode("g1", 0, c) : c \in HardKids}

HardDocs ==
  { GroupNode("root", 0, s) :
      s \in { t \in UNION {[1..k -> HardTop] : k \in 0..2} : uniqueIds(idsOfSeq(t)) } }

\* ─── Display objects ────────────────────────────────────────────────────
\* The heap of live Pixi display objects: object 0 is the root container,
\* which carries no __vv metadata.  NoObj stands for undefined/null.
NoObj == -1
RootContainer == 0
NoMeta == [nodeId |-> Undefined, nodeType |-> Undefined, snapshot |-> Undefined]

getMeta(st, obj) == st.objs[obj].meta
hasMeta(st, obj) == st.objs[obj].meta /= NoMeta

\* JSON.stringify of the node, without `children` for a group.  The record of
\* the serialised fields stands for the string: two snapshots are equal
\* exactly when the serialised fields are.
nodeSnapshot(node) ==
  IF node.type = "group"
  THEN [id |-> node.id, type |-> node.type, v |-> node.v]
  ELSE node

setMeta(st, obj, node) ==
  [st EXCEPT !.objs[obj].meta =
     [nodeId |-> node.id, nodeType |-> node.type, snapshot |-> nodeSnapshot(node)]]

nodeMapGet(st, id) == IF id \in DOMAIN st.nodeMap THEN st.nodeMap[id] ELSE NoObj

nodeMapSet(st, id, obj) ==
  [st EXCEPT !.nodeMap = [k \in DOMAIN st.nodeMap \cup {id} |->
                            IF k = id THEN obj ELSE st.nodeMap[k]]]

nodeMapDelete(st, id) ==
  [st EXCEPT !.nodeMap = [k \in DOMAIN st.nodeMap \ {id} |-> st.nodeMap[k]]]

without(seq, x) == SelectSeq(seq, LAMBDA e : e /= x)

\* obj.removeFromParent()
removeFromParent(st, obj) ==
  LET p == st.objs[obj].parent IN
  IF p = NoObj THEN st
  ELSE [st EXCEPT !.objs[p].children = without(@, obj), !.objs[obj].parent = NoObj]

\* container.addChild(obj): detach from the old parent, append.
addChild(st, container, obj) ==
  LET d == removeFromParent(st, obj) IN
  [d EXCEPT !.objs[container].children = Append(@, obj), !.objs[obj].parent = container]

\* container.getChildIndex(obj), 1-based
getChildIndex(st, container, obj) ==
  CHOOSE i \in 1..Len(st.objs[container].children) : st.objs[container].children[i] = obj

\* container.setChildIndex(obj, index), 1-based
setChildIndex(st, container, obj, index) ==
  LET rest == without(st.objs[container].children, obj) IN
  [st EXCEPT !.objs[container].children =
     SubSeq(rest, 1, index - 1) \o <<obj>> \o SubSeq(rest, index, Len(rest))]

\* new PIXI.Graphics() / new PIXI.Container(): a live object that is none of
\* the objects alive before the pass or created so far in it.
newObject(st) ==
  LET obj == Min({h \in 1..(Cardinality(st.used) + 1) : h \notin st.used}) IN
  [st |-> [st EXCEPT !.objs = [k \in DOMAIN st.objs \cup {obj} |->
                                 IF k = obj
                                 THEN [meta |-> NoMeta, parent |-> NoObj, children |-> <<>>]
                                 ELSE st.objs[k]],
                     !.used = @ \cup {obj},
                     !.created = @ \cup {obj}],
   obj |-> obj]

\* obj.destroy({ children: true }): the children carrying metadata have been
\* removed before, so what is left to destroy is the object itself.
destroy(st, obj) ==
  [st EXCEPT !.objs = [k \in DOMAIN st.objs \ {obj} |-> st.objs[k]],
             !.destroyed = @ \cup {obj}]

KnownTypes == {"rect", "circle", "group", "polyline", "image"}

\* Building the object of this node throws: `n.points.length` of a polyline
\* (or polygon) that carries no points is a TypeError.
constructionThrows(node) == node.type = "polyline" /\ node.points = Undefined

throw(st) == [st EXCEPT !.thrown = TRUE]

RECURSIVE createDisplayObject(_, _)
RECURSIVE createGroupChildren(_, _, _, _)
createDisplayObject(st, node) ==
  IF node.type \notin KnownTypes THEN [st |-> st, obj |-> NoObj]
  ELSE IF constructionThrows(node) THEN [st |-> throw(st), obj |-> NoObj]
  ELSE LET made == newObject(st) IN
       IF node.type = "group"
       THEN LET filled == createGroupChildren(made.st, node.children, 1, made.obj) IN
            [st |-> filled, obj |-> IF filled.thrown THEN NoObj ELSE made.obj]
       ELSE made
createGroupChildren(st, children, i, container) ==
  IF i > Len(children) THEN st
  ELSE LET child == children[i]
           made == createDisplayObject(st, child)
       IN IF made.st.thrown THEN made.st
          ELSE IF made.obj = NoObj THEN createGroupChildren(st, children, i + 1, container)
          ELSE createGroupChildren(
                 addChild(nodeMapSet(setMeta(made.st, made.obj, child), child.id, made.obj),
                          container, made.obj),
                 children, i + 1, container)

RECURSIVE removeDisplayObject(_, _, _)
RECURSIVE removeChildrenBackwards(_, _, _)
removeDisplayObject(st, obj, nodeId) ==
  IF obj = NoObj THEN st
  ELSE LET cleaned == removeChildrenBackwards(st, st.objs[obj].children, Len(st.objs[obj].children))
       IN nodeMapDelete(destroy(removeFromParent(cleaned, obj), obj), nodeId)
removeChildrenBackwards(st, children, i) ==
  IF i < 1 THEN st
  ELSE LET child == children[i] IN
       removeChildrenBackwards(
         IF hasMeta(st, child) THEN removeDisplayObject(st, child, getMeta(st, child).nodeId) ELSE st,
         children, i - 1)

\* ─── Scene diffing ──────────────────────────────────────────────────────
RECURSIVE syncNode(_, _, _)
RECURSIVE syncGroupChildren(_, _, _)
RECURSIVE removeListed(_, _, _)
RECURSIVE syncChildrenFrom(_, _, _, _)

\* Create a new display object (the tail of syncNode).
createAndAttach(st, node, parent) ==
  LET made == createDisplayObject(st, node) IN
  IF made.st.thrown \/ made.obj = NoObj THEN made.st
  ELSE addChild(nodeMapSet(setMeta(made.st, made.obj, node), node.id, made.obj),
                parent, made.obj)

syncNode(st, node, parent) ==
  LET existing == nodeMapGet(st, node.id)
      snap == nodeSnapshot(node)
  IN IF existing /= NoObj
     THEN LET meta == getMeta(st, existing) IN
          IF meta /= NoMeta /\ meta.snapshot = snap /\ node.type /= "group"
          THEN st
          ELSE IF meta /= NoMeta /\ meta.nodeType /= node.type
          THEN createAndAttach(removeDisplayObject(st, existing, node.id), node, parent)
          ELSE IF node.type = "group"
          THEN syncGroupChildren(setMeta(st, existing, node), node, existing)
          ELSE createAndAttach(removeDisplayObject(st, existing, node.id), node, parent)
     ELSE createAndAttach(st, node, parent)

\* The ids collected in toRemove: children of the container, last to first,
\* whose metadata names an id that is no child of the group any more.
toRemoveOf(st, container, childIds) ==
  LET cs == st.objs[container].children
      rev == [i \in 1..Len(cs) |-> cs[Len(cs) + 1 - i]]
      stale == SelectSeq(rev, LAMBDA c : hasMeta(st, c) /\ getMeta(st, c).nodeId \notin childIds)
  IN [i \in 1..Len(stale) |-> getMeta(st, stale[i]).nodeId]

removeListed(st, ids, i) ==
  IF i > Len(ids) THEN st
  ELSE removeListed(removeDisplayObject(st, nodeMapGet(st, ids[i]), ids[i]), ids, i + 1)

\* "Ensure correct z-order" for the child at (1-based) position i.
ensureOrder(st, container, childId, i) ==
  LET childObj == nodeMapGet(st, childId) IN
  IF childObj /= NoObj /\ st.objs[childObj].parent = container
  THEN LET n == Len(st.objs[container].children) IN
       IF getChildIndex(st, container, childObj) /= i /\ i - 1 < n
       THEN setChildIndex(st, container, childObj, IF i < n THEN i ELSE n)
       ELSE st
  ELSE st

syncChildrenFrom(st, children, i, container) ==
  IF i > Len(children) THEN st
  ELSE LET synced == syncNode(st, children[i], container) IN
       IF synced.thrown THEN synced
       ELSE syncChildrenFrom(ensureOrder(synced, container, children[i].id, i),
                             children, i + 1, container)

syncGroupChildren(st, groupNode, container) ==
  LET childIds == {groupNode.children[i].id : i \in 1..Len(groupNode.children)}
      removed == removeListed(st, toRemoveOf(st, container, childIds), 1)
  IN syncChildrenFrom(removed, groupNode.children, 1, container)

\* ─── One mounted PixiSceneRenderer ──────────────────────────────────────

EmptyStage ==
  [objs |-> [k \in {RootContainer} |-> [meta |-> NoMeta, parent |-> NoObj, children |-> <<>>]],
   nodeMap |-> [k \in {} |-> NoObj],
   created |-> {}, destroyed |-> {}, used |-> {RootContainer}, thrown |-> FALSE]

\* syncScene(scene, rootContainer, ctx, ...): "Sync the root group".
syncScene(curObjs, curMap, scn) ==
  syncGroupChildren(
    [objs |-> curObjs, nodeMap |-> curMap, created |-> {}, destroyed |-> {},
     used |-> DOMAIN curObjs, thrown |-> FALSE],
    scn, RootContainer)

\* After construction the initial scene has been synced onto the empty stage.
ReconInit ==
  \E d \in Docs :
    \E st \in {syncScene(EmptyStage.objs, EmptyStage.nodeMap, d)} :
    /\ doc = d
    /\ objs = st.objs
    /\ nodeMap = st.nodeMap
    /\ passes = 0
    /\ lastPass = [created |-> st.created, destroyed |-> st.destroyed, threw |-> st.thrown]

\* A new scene version is published and synced.
SyncScene(d) ==
  /\ passes < MaxPasses
  /\ \E st \in {syncScene(objs, nodeMap, d)} :
       /\ doc' = d
       /\ objs' = st.objs
       /\ nodeMap' = st.nodeMap
       /\ lastPass' = [created |-> st.created, destroyed |-> st.destroyed, threw |-> st.thrown]
  /\ passes' = passes + 1
  /\ UNCHANGED << hookVars, toolVars, probe, simVars >>

\* ─── Scene tools: the document and its helpers ──────────────────────────
MaxCalls == 2
MaxOps == 2

\* The scene getScene falls back to; camera, size, gradients and filters are
\* left out, background stands for every top-level scene property.
DefaultScene == [root |-> [id |-> "root", type |-> "group", children |-> <<>>],
                 background |-> "#1a1a2e"]

\* ctx.state._scene ?? default.  The handlers work on a JSON copy of it, so
\* nothing they do reaches ctx.state before setState.
getScene(state) == IF state._scene = None THEN DefaultScene ELSE state._scene[1]

setState(state, scn) == [state EXCEPT !._scene = Some(scn)]

hasChildren(node) == node.type = "group" /\ "children" \in DOMAIN node

NotFound == << 0 >>

\* First node with the id in depth-first pre-order, as the path of child
\* indices leading to it from the node given.
RECURSIVE findNode(_, _)
RECURSIVE findNodeIn(_, _, _)
findNodeIn(children, i, id) ==
  IF i > Len(children) THEN NotFound
  ELSE LET found == findNode(children[i], id)
       IN IF found # NotFound THEN << i >> \o found
          ELSE findNodeIn(children, i + 1, id)

findNode(node, id) ==
  IF node.id = id THEN << >>
  ELSE IF hasChildren(node) THEN findNodeIn(node.children, 1, id)
  ELSE NotFound

RECURSIVE nodeAt(_, _)
nodeAt(node, path) ==
  IF path = << >> THEN node ELSE nodeAt(node.children[Head(path)], Tail(path))

\* The tree with the node at the path replaced: a write through the
\* reference findNode returned.
RECURSIVE withNodeAt(_, _, _)
withNodeAt(node, path, new) ==
  IF path = << >> THEN new
  ELSE [node EXCEPT !.children[Head(path)] = withNodeAt(node.children[Head(path)], Tail(path), new)]

findGroup(root, id) ==
  LET path == findNode(root, id)
  IN IF path # NotFound /\ nodeAt(root, path).type = "group" THEN path ELSE NotFound

findIndex(children, id) ==
  LET hits == { i \in 1..Len(children) : children[i].id = id }
  IN IF hits = {} THEN 0 ELSE CHOOSE i \in hits : \A j \in hits : i <= j

splice(s, idx) == SubSeq(s, 1, idx - 1) \o SubSeq(s, idx + 1, Len(s))

\* removeNode: a direct child with the id is spliced out; otherwise the group
\* children are tried in order and the first success ends the search.
RECURSIVE removeNode(_, _)
RECURSIVE removeNodeBelow(_, _, _)
removeNodeBelow(root, i, id) ==
  IF i > Len(root.children) THEN [ok |-> FALSE, root |-> root]
  ELSE IF root.children[i].type = "group"
  THEN LET sub == removeNode(root.children[i], id)
       IN IF sub.ok THEN [ok |-> TRUE, root |-> [root EXCEPT !.children[i] = sub.root]]
          ELSE removeNodeBelow(root, i + 1, id)
  ELSE removeNodeBelow(root, i + 1, id)

removeNode(root, id) ==
  IF "children" \notin DOMAIN root THEN [ok |-> FALSE, root |-> root]
  ELSE LET idx == findIndex(root.children, id)
       IN IF idx # 0 THEN [ok |-> TRUE, root |-> [root EXCEPT !.children = splice(root.children, idx)]]
          ELSE removeNodeBelow(root, 1, id)

\* for (const id of nodeIds) removeNode(scene.root, id), with the ids removed
RECURSIVE removeNodes(_, _, _)
removeNodes(root, nodeIds, removed) ==
  IF nodeIds = << >> THEN [root |-> root, removed |-> removed]
  ELSE LET r == removeNode(root, Head(nodeIds))
       IN removeNodes(r.root, Tail(nodeIds),
                      IF r.ok THEN Append(removed, Head(nodeIds)) ELSE removed)

\* JavaScript truthiness of an optional string field and of an optional flag
truthy(r, k) == k \in DOMAIN r /\ r[k] # ""
flagSet(r, k) == k \in DOMAIN r /\ r[k]

\* { ...a, ...b } and Object.assign(a, b)
assign(a, b) == [ k \in DOMAIN a \cup DOMAIN b |-> IF k \in DOMAIN b THEN b[k] ELSE a[k] ]

omit(r, keys) == [ k \in DOMAIN r \ keys |-> r[k] ]

\* The node an add pushes: groups default to an empty child list.
nodeToAdd(node) ==
  IF node.type = "group" /\ "children" \notin DOMAIN node
  THEN assign(node, [children |-> << >>])
  ELSE node

\* The update of one node: tween stamped, id and type never overwritten.
\* (transform and style are merged the same way as the other fields here,
\* since the inputs carry neither.)
updatedNode(node, props, timestamp) ==
  LET stamped == IF "tween" \in DOMAIN props
                 THEN assign(node, [tween |-> assign(props.tween, [startedAt |-> timestamp])])
                 ELSE node
  IN assign(stamped, omit(props, {"tween", "id", "type"}))

\* What a call leaves behind: the error it threw, ctx.state afterwards, the
\* number of setState calls and the results it returned.
Threw(state, message) ==
  [error |-> Some(message), state |-> state, published |-> 0, results |-> << >>]
Returned(state) ==
  [error |-> None, state |-> state, published |-> 1, results |-> << >>]

\* ─── Scene tools: the individual handlers ───────────────────────────────
sceneAdd(state, input) ==
  LET scn == getScene(state)
      node == nodeToAdd(input.node)
      parent == IF truthy(input, "parentId") THEN findGroup(scn.root, input.parentId) ELSE << >>
  IN IF parent = NotFound
     THEN Threw(state, << "Parent group not found", input.parentId >>)
     ELSE LET p == nodeAt(scn.root, parent)
              grown == [p EXCEPT !.children = Append(@, node)]
          IN Returned(setState(state, [scn EXCEPT !.root = withNodeAt(scn.root, parent, grown)]))

sceneUpdate(state, input, timestamp) ==
  LET scn == getScene(state)
      path == findNode(scn.root, input.nodeId)
  IN IF path = NotFound
     THEN Threw(state, << "Node not found", input.nodeId >>)
     ELSE LET node == updatedNode(nodeAt(scn.root, path), omit(input, {"nodeId"}), timestamp)
          IN Returned(setState(state, [scn EXCEPT !.root = withNodeAt(scn.root, path, node)]))

sceneRemove(state, input) ==
  LET scn == getScene(state)
      nodeIds == IF "nodeIds" \in DOMAIN input THEN input.nodeIds ELSE << >>
  IN IF flagSet(input, "clear")
     THEN Returned(setState(state, [scn EXCEPT !.root.children = << >>]))
     ELSE Returned(setState(state,
            [scn EXCEPT !.root = removeNodes(scn.root, nodeIds, << >>).root]))

sceneSet(state, input) ==
  LET scn == getScene(state)
  IN Returned(setState(state,
       IF "background" \in DOMAIN input THEN [scn EXCEPT !.background = input.background] ELSE scn))

\* ─── Scene tools: the batch handler ─────────────────────────────────────
\* One operation of a batch against the working copy: the copy afterwards
\* and the results pushed.  A throw is caught and becomes an error result.
batchAdd_prepends(scn, op) ==
  LET node == nodeToAdd(op.node)
      parent == IF truthy(op, "parentId") THEN findGroup(scn.root, op.parentId) ELSE << >>
  IN IF parent = NotFound
     THEN [scn |-> scn, results |-> << [op |-> "add", error |-> << "Parent not found", op.parentId >>] >>]
     ELSE LET p == nodeAt(scn.root, parent)
              grown == [p EXCEPT !.children = << node >> \o @]
          IN [scn |-> [scn EXCEPT !.root = withNodeAt(scn.root, parent, grown)],
              results |-> << [op |-> "add", nodeId |-> node.id] >>]

batchAdd(scn, op) ==
  LET node == nodeToAdd(op.node)
      parent == IF truthy(op, "parentId") THEN findGroup(scn.root, op.parentId) ELSE << >>
  IN IF parent = NotFound
     THEN [scn |-> scn, results |-> << [op |-> "add", error |-> << "Parent not found", op.parentId >>] >>]
     ELSE LET p == nodeAt(scn.root, parent)
              grown == [p EXCEPT !.children = Append(@, node)]
          IN [scn |-> [scn EXCEPT !.root = withNodeAt(scn.root, parent, grown)],
              results |-> << [op |-> "add", nodeId |-> node.id] >>]

batchUpdate(scn, op, timestamp) ==
  LET path == findNode(scn.root, op.nodeId)
  IN IF path = NotFound
     THEN [scn |-> scn, results |-> << [op |-> "update", error |-> << "Node not found", op.nodeId >>] >>]
     ELSE LET node == updatedNode(nodeAt(scn.root, path), omit(op, {"nodeId", "op"}), timestamp)
          IN [scn |-> [scn EXCEPT !.root = withNodeAt(scn.root, path, node)],
              results |-> << [op |-> "update", nodeId |-> op.nodeId] >>]

batchRemove(scn, op) ==
  IF flagSet(op, "clear")
  THEN [scn |-> [scn EXCEPT !.root.children = << >>],
        results |-> << [op |-> "remove", cleared |-> TRUE] >>]
  ELSE IF "nodeIds" \in DOMAIN op
  THEN [scn |-> [scn EXCEPT !.root = removeNodes(scn.root, op.nodeIds, << >>).root],
        results |-> << [op |-> "remove", nodeIds |-> op.nodeIds] >>]
  ELSE IF truthy(op, "nodeId")
  THEN [scn |-> [scn EXCEPT !.root = removeNode(scn.root, op.nodeId).root],
        results |-> << [op |-> "remove", nodeId |-> op.nodeId] >>]
  ELSE [scn |-> scn, results |-> << >>]

batchSet(scn, op) ==
  [scn |-> IF "background" \in DOMAIN op THEN [scn EXCEPT !.background = op.background] ELSE scn,
   results |-> << [op |-> "set"] >>]

batchOp(scn, op, timestamp) ==
  CASE op.op = "add" -> batchAdd(scn, op)
    [] op.op = "update" -> batchUpdate(scn, op, timestamp)
    [] op.op = "remove" -> batchRemove(scn, op)
    [] op.op = "set" -> batchSet(scn, op)
    [] OTHER -> [scn |-> scn, results |-> << [op |-> op.op, error |-> << "Unknown operation", op.op >>] >>]

RECURSIVE batchLoop(_, _, _, _)
batchLoop(scn, operations, results, timestamp) ==
  IF operations = << >> THEN [scn |-> scn, results |-> results]
  ELSE LET done == batchOp(scn, Head(operations), timestamp)
       IN batchLoop(done.scn, Tail(operations), results \o done.results, timestamp)

sceneBatch_noCatch(state, input, timestamp) ==
  LET done == batchLoop(getScene(state), input.operations, << >>, timestamp)
  IN IF \E i \in 1..Len(done.results) : "error" \in DOMAIN done.results[i]
     THEN Threw(state, << "uncaught", "batch" >>)
     ELSE [error |-> None, state |-> setState(state, done.scn), published |-> 1,
           results |-> done.results]

sceneBatch(state, input, timestamp) ==
  LET done == batchLoop(getScene(state), input.operations, << >>, timestamp)
  IN [error |-> None, state |-> setState(state, done.scn), published |-> 1,
      results |-> done.results]

\* ─── Scene tools: the calls made ────────────────────────────────────────
NodeA == [id |-> "a", type |-> "rect", v |-> 0]
NodeB == [id |-> "b", type |-> "rect", v |-> 0]
NodeG == [id |-> "g", type |-> "group", v |-> 0]
TweenTo5 == [property |-> "v", to |-> 5]

AddInputs ==
  { [node |-> n] : n \in {NodeA, NodeB, NodeG} }
    \cup { [node |-> n, parentId |-> "g"] : n \in {NodeA, NodeB, NodeG} }
    \cup { [node |-> NodeB, parentId |-> p] : p \in {"zz", "a", ""} }

UpdateInputs ==
  { [nodeId |-> "a", v |-> 1], [nodeId |-> "a", tween |-> TweenTo5],
    [nodeId |-> "g", id |-> "x", v |-> 2],
    [nodeId |-> "zz", v |-> 1], [nodeId |-> "zz", tween |-> TweenTo5] }

RemoveInputs ==
  { [nodeIds |-> << "a" >>], [nodeIds |-> << "g" >>], [nodeIds |-> << "root" >>],
    [nodeIds |-> << "zz", "b" >>], [clear |-> TRUE], [clear |-> FALSE] }

SetInputs == { [background |-> "#000"], [width |-> 640] }

BatchOps ==
  { [op |-> "add", node |-> NodeA],
    [op |-> "add", node |-> NodeB, parentId |-> "zz"],
    [op |-> "update", nodeId |-> "a", tween |-> TweenTo5],
    [op |-> "remove", nodeIds |-> << "a" >>],
    [op |-> "set", background |-> "#000"] }

BatchInputs ==
  { [operations |-> ops] : ops \in UNION { [1..k -> BatchOps] : k \in 0..MaxOps } }

\* ctx.timestamp of the next call
timestamp == EpochOffset + callCount

Call(tool, input, out) ==
  /\ ctxState' = out.state
  /\ callCount' = callCount + 1
  /\ lastCall' = [tool |-> tool, input |-> input, error |-> out.error,
                  published |-> out.published, results |-> out.results]
  /\ UNCHANGED << hookVars, reconVars, probe, simVars >>

SceneAdd(input) ==
  /\ callCount < MaxCalls
  /\ \E out \in {sceneAdd(ctxState, input)} : Call("add", input, out)

SceneUpdate(input) ==
  /\ callCount < MaxCalls
  /\ \E out \in {sceneUpdate(ctxState, input, timestamp)} : Call("update", input, out)

SceneRemove(input) ==
  /\ callCount < MaxCalls
  /\ \E out \in {sceneRemove(ctxState, input)} : Call("remove", input, out)

SceneSet(input) ==
  /\ callCount < MaxCalls
  /\ \E out \in {sceneSet(ctxState, input)} : Call("set", input, out)

SceneBatch(input) ==
  /\ callCount < MaxCalls
  /\ \E out \in {sceneBatch(ctxState, input, timestamp)} : Call("batch", input, out)

\* ─── Rule management tools ──────────────────────────────────────────────
MaxRuleCalls == 3

\* input.k ?? d
fieldOr(r, k, d) == IF k \in DOMAIN r THEN r[k] ELSE d

\* ctx.state._rules || []
storedRules(state) == IF state._rules = None THEN << >> ELSE state._rules[1]

DefaultWorldMeta == [name |-> "Untitled", description |-> "", paused |-> FALSE, tickSpeed |-> 100]

\* ctx.state._worldMeta || defaults
storedWorldMeta(state) ==
  IF state._worldMeta = None THEN DefaultWorldMeta ELSE state._worldMeta[1]

rulesSet_appends(state, input) ==
  LET list == storedRules(state)
      rule == [id |-> input.id, name |-> input.name,
               description |-> fieldOr(input, "description", ""),
               enabled |-> fieldOr(input, "enabled", TRUE),
               trigger |-> fieldOr(input, "trigger", "tick"),
               condition |-> input.condition, effect |-> input.effect]
      next == Append(list, rule)
  IN [error |-> None, state |-> [state EXCEPT !._rules = Some(next)], published |-> 1,
      results |-> << [ruleId |-> rule.id, total |-> Len(next), action |-> "created"] >>]

rulesSet(state, input) ==
  LET list == storedRules(state)
      rule == [id |-> input.id, name |-> input.name,
               description |-> fieldOr(input, "description", ""),
               enabled |-> fieldOr(input, "enabled", TRUE),
               trigger |-> fieldOr(input, "trigger", "tick"),
               condition |-> input.condition, effect |-> input.effect]
      idx == findIndex(list, input.id)
      next == IF idx # 0 THEN [list EXCEPT ![idx] = rule] ELSE Append(list, rule)
  IN [error |-> None, state |-> [state EXCEPT !._rules = Some(next)], published |-> 1,
      results |-> << [ruleId |-> rule.id, total |-> Len(next),
                      action |-> IF idx # 0 THEN "updated" ELSE "created"] >>]

rulesRemove(state, input) ==
  LET keeps(r) == r.id # input.id
      list == SelectSeq(storedRules(state), keeps)
  IN [error |-> None, state |-> [state EXCEPT !._rules = Some(list)], published |-> 1,
      results |-> << [removed |-> input.id, remaining |-> Len(list)] >>]

\* Every field the input carries overwrites the stored one, as it is.
rulesWorld(state, input) ==
  LET meta == assign(storedWorldMeta(state), input)
  IN [error |-> None, state |-> [state EXCEPT !._worldMeta = Some(meta)], published |-> 1,
      results |-> << [worldMeta |-> meta] >>]

PlainRule(id, name) ==
  [id |-> id, name |-> name, condition |-> [selector |-> "*"], effect |-> [type |-> "remove"]]

RuleInputs ==
  { PlainRule(id, name) : id \in {"r1", "r2"}, name \in {"A", "B"} }
    \cup { assign(PlainRule("r1", "C"),
                  [description |-> "d", enabled |-> FALSE, trigger |-> "timer"]) }

RuleIds == {"r1", "r2", "zz"}

WorldInputs ==
  { [tickSpeed |-> t] : t \in {0, 16, 2000, 5000} }
    \cup { [paused |-> TRUE], [name |-> "The Reef", description |-> "reef"] }

RulesSet(input) ==
  /\ callCount < MaxRuleCalls
  /\ \E out \in {rulesSet(ctxState, input)} : Call("_rules.set", input, out)

RulesRemove(input) ==
  /\ callCount < MaxRuleCalls
  /\ \E out \in {rulesRemove(ctxState, input)} : Call("_rules.remove", input, out)

RulesWorld(input) ==
  /\ callCount < MaxRuleCalls
  /\ \E out \in {rulesWorld(ctxState, input)} : Call("_rules.world", input, out)

\* ─── Selector matching applied to single nodes ──────────────────────────
\* The nodes tried: with and without name, entity type and tags.
ProbeNodes ==
  LET bare == { Node("n", type, name, entityType, 0) :
                  type \in {"circle", "group"}, name \in {Undefined, "hero"},
                  entityType \in {Undefined, "", "fish"} }
  IN bare \cup { assign(n, [tags |-> t]) :
                   n \in bare, t \in {<< >>, <<"alive">>, <<"fish", "alive">>} }

\* The selectors tried, each with the reading the selector syntax gives it.
Selector(text, kind, value) == [text |-> text, kind |-> kind, value |-> value]

ProbeSelectors ==
  { Selector(<<"*">>, "any", ""),
    Selector(<<" ", "*", " ">>, "any", ""),
    Selector(<<"entityType", ":", "fish">>, "entityType", "fish"),
    Selector(<<"tag", ":", "alive">>, "tag", "alive"),
    Selector(<<"tag", ":", "fish">>, "tag", "fish"),
    Selector(<<"name", ":", "hero">>, "name", "hero"),
    Selector(<<"type", ":", "circle">>, "type", "circle"),
    Selector(<<"type", ":", "circle", ":", "x">>, "type", "circle:x"),
    Selector(<<"id", ":", "n">>, "other", ""),
    Selector(<<"fish">>, "other", ""),
    Selector(<< >>, "other", "") }

MatchSelector(node, selector) ==
  /\ probe' = [fn |-> "nodeMatchesSelector", node |-> node, selector |-> selector,
               result |-> nodeMatchesSelector(node, selector.text)]
  /\ UNCHANGED << hookVars, reconVars, toolVars, simVars >>

\* ─── Tween interpolation ────────────────────────────────────────────────
MaxElapsed == 15

\* Numbers are exact fractions num/den; floating-point rounding is left out.
Number(n) == [num |-> n, den |-> 1]

\* easeFn(n/d) as a fraction over d^3, for the easings the tweens here name.
easingFunctions(name, n, d) ==
  CASE name = "linear" -> n * d * d
    [] name = "ease-in" -> n * n * n
    [] name = "ease-in-out" ->
         IF 2 * n < d THEN 4 * n * n * n
         ELSE d * d * d - 4 * (d - n) * (d - n) * (d - n)

KnownEasings == {"linear", "ease-in", "ease-in-out"}

\* easingFunctions[easingName] ?? easingFunctions['linear'], applied to the
\* progress clamped into 0..1
eased(tween, n, d) ==
  LET easingName == OrElse(tween.easing, "ease-in-out")
      clamped == IF n < 0 THEN 0 ELSE IF n > d THEN d ELSE n
  IN easingFunctions(IF easingName \in KnownEasings THEN easingName ELSE "linear", clamped, d)

interpolateTween_ignoresDelay(tween, now) ==
  IF tween.startedAt = None THEN None
  ELSE LET elapsed == now - tween.startedAt[1]
           repeat == OrElse(tween.repeat, 0)
           duration == tween.duration
           yoyo == OrElse(tween.yoyo, FALSE)
       IN IF elapsed < 0 THEN Some(Number(tween.from))
          ELSE IF duration <= 0 THEN Some(Number(tween.to))
          ELSE LET iteration == elapsed \div duration
                   progress == elapsed % duration
               IN IF repeat >= 0 /\ iteration > repeat
                  THEN (IF yoyo /\ repeat % 2 = 0 THEN Some(Number(tween.from))
                        ELSE Some(Number(tween.to)))
                  ELSE LET p == IF yoyo /\ iteration % 2 = 1 THEN duration - progress
                                ELSE progress
                           d3 == duration * duration * duration
                       IN Some([num |-> tween.from * d3 + (tween.to - tween.from) * eased(tween, p, duration),
                                den |-> d3])

interpolateTween_completesEarly(tween, now) ==
  IF tween.startedAt = None THEN None
  ELSE LET delay == OrElse(tween.delay, 0)
           elapsed == now - tween.startedAt[1] - delay
           repeat == OrElse(tween.repeat, 0)
           duration == tween.duration
           yoyo == OrElse(tween.yoyo, FALSE)
       IN IF elapsed < 0 THEN Some(Number(tween.from))
          ELSE IF duration <= 0 THEN Some(Number(tween.to))
          ELSE LET iteration == elapsed \div duration
                   progress == elapsed % duration
               IN IF repeat >= 0 /\ iteration >= repeat
                  THEN (IF yoyo /\ repeat % 2 = 0 THEN Some(Number(tween.from))
                        ELSE Some(Number(tween.to)))
                  ELSE LET p == IF yoyo /\ iteration % 2 = 1 THEN duration - progress
                                ELSE progress
                           d3 == duration * duration * duration
                       IN Some([num |-> tween.from * d3 + (tween.to - tween.from) * eased(tween, p, duration),
                                den |-> d3])

interpolateTween(tween, now) ==
  IF tween.startedAt = None THEN None
  ELSE LET delay == OrElse(tween.delay, 0)
           elapsed == now - tween.startedAt[1] - delay
           repeat == OrElse(tween.repeat, 0)
           duration == tween.duration
           yoyo == OrElse(tween.yoyo, FALSE)
       IN IF elapsed < 0 THEN Some(Number(tween.from))
          ELSE IF duration <= 0 THEN Some(Number(tween.to))
          ELSE LET iteration == elapsed \div duration
                   progress == elapsed % duration
               IN IF repeat >= 0 /\ iteration > repeat
                  THEN (IF yoyo /\ repeat % 2 = 0 THEN Some(Number(tween.from))
                        ELSE Some(Number(tween.to)))
                  ELSE LET p == IF yoyo /\ iteration % 2 = 1 THEN duration - progress
                                ELSE progress
                           d3 == duration * duration * duration
                       IN Some([num |-> tween.from * d3 + (tween.to - tween.from) * eased(tween, p, duration),
                                den |-> d3])

Tweens ==
  [ from : {10, 30}, to : {10, 30}, duration : {0, 4},
    delay : {None, Some(2)}, repeat : {None, Some(0), Some(1), Some(2), Some(-1)},
    yoyo : {None, Some(TRUE)}, startedAt : {None, Some(EpochOffset)},
    easing : {None, Some("linear"), Some("ease-in"), Some("wobble")} ]

Interpolate(tween, now) ==
  /\ probe' = [fn |-> "interpolateTween", tween |-> tween, now |-> now,
               result |-> interpolateTween(tween, now)]
  /\ UNCHANGED << hookVars, reconVars, toolVars, simVars >>

\* A later frame evaluates the same tween again at a later time.
InterpolateAgain(now) ==
  /\ probe.fn = "interpolateTween"
  /\ now > probe.now
  /\ probe' = [probe EXCEPT !.now = now, !.result = interpolateTween(probe.tween, now)]
  /\ UNCHANGED << hookVars, reconVars, toolVars, simVars >>

\* ─── IEEE 754 double arithmetic for the spawn count ─────────────────────
\* Natural numbers of any size: sequences of limbs, least significant first.
Limb == 2 ^ 15

RECURSIVE mulSmall(_, _, _)
mulSmall(x, m, carry) ==
  IF x = << >> THEN (IF carry = 0 THEN << >> ELSE << carry % Limb >> \o mulSmall(<< >>, m, carry \div Limb))
  ELSE LET cur == Head(x) * m + carry
       IN << cur % Limb >> \o mulSmall(Tail(x), m, cur \div Limb)

RECURSIVE divSmall(_, _)
divSmall(x, d) ==
  IF x = << >> THEN [q |-> << >>, r |-> 0]
  ELSE LET upper == divSmall(Tail(x), d)
           cur == upper.r * Limb + Head(x)
       IN [q |-> << cur \div d >> \o upper.q, r |-> cur % d]

RECURSIVE trimmed(_)
trimmed(x) ==
  IF x = << >> THEN x
  ELSE IF x[Len(x)] = 0 THEN trimmed(SubSeq(x, 1, Len(x) - 1)) ELSE x

RECURSIVE bits(_)
bits(n) == IF n = 0 THEN 0 ELSE 1 + bits(n \div 2)

bitLen(x) ==
  LET t == trimmed(x) IN IF t = << >> THEN 0 ELSE (Len(t) - 1) * 15 + bits(t[Len(t)])

RECURSIVE shiftLeft(_, _)
shiftLeft(x, s) ==
  IF s = 0 THEN x
  ELSE IF s >= 15 THEN << 0 >> \o shiftLeft(x, s - 15)
  ELSE mulSmall(x, 2 ^ s, 0)

RECURSIVE addOne(_)
addOne(x) ==
  IF x = << >> THEN << 1 >>
  ELSE IF Head(x) + 1 < Limb THEN << Head(x) + 1 >> \o Tail(x)
  ELSE << 0 >> \o addOne(Tail(x))

isOdd(x) == x /= << >> /\ Head(x) % 2 = 1

\* q or q + 1: round to nearest, ties to even, for a remainder r of a division by d
roundNearestEven(q, r, d) ==
  IF 2 * r > d \/ (2 * r = d /\ isOdd(q)) THEN addOne(q) ELSE q

RECURSIVE toNumber(_)
toNumber(x) == IF x = << >> THEN 0 ELSE Head(x) + Limb * toNumber(Tail(x))

RECURSIVE shiftRight(_, _)
shiftRight(x, s) ==
  IF s = 0 \/ x = << >> THEN x
  ELSE IF s >= 15 THEN shiftRight(Tail(x), s - 15)
  ELSE divSmall(x, 2 ^ s).q

\* the exponent c with 1 <= a * 2^c / b < 2
RECURSIVE scaleUp(_, _)
scaleUp(a, b) == IF a >= b THEN 0 ELSE 1 + scaleUp(2 * a, b)

RECURSIVE scaleDown(_, _)
scaleDown(a, b) == IF a < 2 * b THEN 0 ELSE 1 + scaleDown(a, 2 * b)

\* a / b as a double m * 2^-e with a 53-bit m, for integers a > 0, b > 0
floatDivide(a, b) ==
  LET e == IF a >= b THEN 52 - scaleDown(a, b) ELSE 52 + scaleUp(a, b)
      d == divSmall(shiftLeft(<< a >>, e), b)
  IN [m |-> roundNearestEven(trimmed(d.q), d.r, b), e |-> e]

\* n * x as a double, for an integer n >= 0
floatTimes(n, x) ==
  LET product == trimmed(mulSmall(x.m, n, 0))
      extra == bitLen(product) - 53
  IN IF extra <= 0 THEN [m |-> product, e |-> x.e]
     ELSE LET d == divSmall(product, 2 ^ extra)
          IN [m |-> roundNearestEven(trimmed(d.q), d.r, 2 ^ extra), e |-> x.e - extra]

\* Math.floor of a double m * 2^-e >= 0 with e >= 0
MathFloor(x) == toNumber(shiftRight(x.m, x.e))

\* ─── Exact fractions ────────────────────────────────────────────────────
RECURSIVE gcd(_, _)
gcd(a, b) == IF b = 0 THEN a ELSE gcd(b, a % b)

reduced(q) ==
  LET g == gcd(IF q.num < 0 THEN -q.num ELSE q.num, q.den)
  IN [num |-> q.num \div g, den |-> q.den \div g]

plus(a, b) == reduced([num |-> a.num * b.den + b.num * a.den, den |-> a.den * b.den])

times(a, b) == reduced([num |-> a.num * b.num, den |-> a.den * b.den])

\* ─── Particle simulation ────────────────────────────────────────────────
MaxFrames == 2

\* Math.random(): the sequence of draws of one frame, each draw u / 2, the
\* sequence repeating.
RandomStreams == { << 0 >>, << 1 >>, << 0, 1 >>, << 1, 1, 0 >> }

MathRandom(stream, at) == [num |-> stream[(at % Len(stream)) + 1], den |-> 2]

\* min + Math.random() * (max - min)
rand(min, max, u) == plus(Number(min), times(u, Number(max - min)))

\* Math.cos and Math.sin of degToRad(angle), for the multiples of 90 degrees
MathCos(angle) == CASE (angle.num \div 90) % 4 = 0 -> Number(1)
                    [] (angle.num \div 90) % 4 = 2 -> Number(-1)
                    [] OTHER -> Number(0)

MathSin(angle) == CASE (angle.num \div 90) % 4 = 1 -> Number(1)
                    [] (angle.num \div 90) % 4 = 3 -> Number(-1)
                    [] OTHER -> Number(0)

\* the number of Math.random() calls one new particle makes
drawsPerParticle(emitter) == IF "size" \in DOMAIN emitter THEN 4 ELSE 3

newParticle(emitter, stream, at) ==
  LET angle == rand(emitter.direction.min, emitter.direction.max, MathRandom(stream, at))
      speed == rand(emitter.speed.min, emitter.speed.max, MathRandom(stream, at + 1))
      size == IF "size" \in DOMAIN emitter
              THEN rand(emitter.size.min, emitter.size.max, MathRandom(stream, at + 2))
              ELSE Number(4)
      colors == IF "color" \in DOMAIN emitter THEN emitter.color ELSE << "#ffffff" >>
      pick == MathRandom(stream, at + drawsPerParticle(emitter) - 1)
  IN [x |-> Number(emitter.x), y |-> Number(emitter.y),
      vx |-> times(MathCos(angle), speed), vy |-> times(MathSin(angle), speed),
      age |-> 0, lifetime |-> emitter.lifetime, size |-> size,
      color |-> colors[((pick.num * Len(colors)) \div pick.den) + 1]]

newParticles(emitter, count, stream, at) ==
  [ i \in 1..count |-> newParticle(emitter, stream, at + (i - 1) * drawsPerParticle(emitter)) ]

\* Math.floor(emitter.rate * (dt / 1000)) in double arithmetic
spawnCount(emitter, dt) == MathFloor(floatTimes(emitter.rate, floatDivide(dt, 1000)))

spawnParticles(emitter, dt, stream, at) ==
  newParticles(emitter, spawnCount(emitter, dt), stream, at)

firstGravity(emitters) ==
  IF emitters /= << >> /\ "gravity" \in DOMAIN emitters[1] THEN emitters[1].gravity ELSE 0

tickParticles(particles, emitters, dt) ==
  LET dtSec == reduced([num |-> dt, den |-> 1000])
      gravity == Number(firstGravity(emitters))
      moved(p) == [p EXCEPT !.x = plus(p.x, times(p.vx, dtSec)),
                            !.y = plus(p.y, times(p.vy, dtSec)),
                            !.vy = plus(p.vy, times(gravity, dtSec)),
                            !.age = p.age + dt]
  IN SelectSeq([ i \in 1..Len(particles) |-> moved(particles[i]) ],
               LAMBDA p : p.age < p.lifetime)

RECURSIVE spawnAll(_, _, _, _)
spawnAll(emitters, dt, stream, at) ==
  IF emitters = << >> THEN << >>
  ELSE spawnParticles(Head(emitters), dt, stream, at)
         \o spawnAll(Tail(emitters), dt, stream,
                     at + spawnCount(Head(emitters), dt) * drawsPerParticle(Head(emitters)))

DefaultMaxParticles == 200

slice(list, start) == SubSeq(list, start + 1, Len(list))

lastMessages(list, n) == slice(list, Len(list) - n)

tickParticleNode_keepsOldest(node, dt, stream) ==
  LET max == OrElse(node.maxParticles, DefaultMaxParticles)
      particles == tickParticles(OrElse(node._particles, << >>), node.emitters, dt)
                     \o spawnAll(node.emitters, dt, stream, 0)
  IN IF Len(particles) > max THEN SubSeq(particles, 1, max) ELSE particles

tickParticleNode(node, dt, stream) ==
  LET max == OrElse(node.maxParticles, DefaultMaxParticles)
      particles == tickParticles(OrElse(node._particles, << >>), node.emitters, dt)
                     \o spawnAll(node.emitters, dt, stream, 0)
  IN IF Len(particles) > max THEN slice(particles, Len(particles) - max) ELSE particles

\* The renderer's own step. The loop ages and moves the particle objects in
\* place, last to first, splicing the expired ones out; the order is kept.
updateExisting(particles, emitters, dt) ==
  LET dtSec == reduced([num |-> dt, den |-> 1000])
      gravity == Number(firstGravity(emitters))
      vy(p) == plus(p.vy, times(gravity, dtSec))
      moved(p) == [p EXCEPT !.age = p.age + dt, !.vy = vy(p),
                            !.x = plus(p.x, times(p.vx, dtSec)),
                            !.y = plus(p.y, times(vy(p), dtSec))]
  IN SelectSeq([ i \in 1..Len(particles) |-> moved(particles[i]) ],
               LAMBDA p : ~(p.age >= p.lifetime))

\* for (i = 0; i < count && particles.length < maxParticles; i++) push
spawnUpTo(particles, emitter, count, maxParticles, draws) ==
  LET room == IF maxParticles > Len(particles) THEN maxParticles - Len(particles) ELSE 0
      pushed == IF count < room THEN count ELSE room
  IN [particles |-> particles \o newParticles(emitter, pushed, draws.stream, draws.at),
      at |-> draws.at + pushed * drawsPerParticle(emitter)]

RECURSIVE spawnEach(_, _, _, _, _)
spawnEach(particles, emitters, dt, maxParticles, draws) ==
  IF emitters = << >> THEN particles
  ELSE LET out == spawnUpTo(particles, Head(emitters), spawnCount(Head(emitters), dt),
                            maxParticles, draws)
       IN spawnEach(out.particles, Tail(emitters), dt, maxParticles,
                    [draws EXCEPT !.at = out.at])

tickParticlesInternal(node, dt, stream) ==
  spawnEach(updateExisting(OrElse(node._particles, << >>), node.emitters, dt),
            node.emitters, dt, OrElse(node.maxParticles, DefaultMaxParticles),
            [stream |-> stream, at |-> 0])

\* Emitters and nodes the frames run on
Spark == [x |-> 0, y |-> 5, rate |-> 60, lifetime |-> 100,
          speed |-> [min |-> 10, max |-> 30], direction |-> [min |-> 0, max |-> 180]]

Rain == [x |-> 5, y |-> 0, rate |-> 20, lifetime |-> 1000,
         speed |-> [min |-> 20, max |-> 20], direction |-> [min |-> 90, max |-> 90],
         gravity |-> 10, color |-> << "#00f", "#0ff" >>, size |-> [min |-> 2, max |-> 6]]

Storm == [Rain EXCEPT !.rate = 1500]

Flash == [Spark EXCEPT !.lifetime = 0]

ParticleNodes ==
  { [emitters |-> emitters, maxParticles |-> maxParticles, _particles |-> None] :
      emitters \in { << Spark >>, << Rain >>, << Rain, Spark >>, << Storm >>, << Flash >> },
      maxParticles \in { None, Some(2), Some(4) } }

FrameTimes == { 16, 50, 100 }

\* useParticleTick: one animation frame. dt = Math.min(now - lastTime, 100).
HookFrame(dt, stream) ==
  /\ frameCount < MaxFrames
  /\ LET current == OrElse(particleStateRef, << >>)
         fakeNode == [pnode EXCEPT !._particles = Some(current)]
         elapsedSoFar == IF lastFrame = NoFrame THEN 0 ELSE lastFrame.elapsed
         spawnedSoFar == IF lastFrame = NoFrame THEN [ i \in 1..Len(pnode.emitters) |-> 0 ]
                         ELSE lastFrame.spawned
     IN \E updated \in { tickParticleNode(fakeNode, dt, stream) } :
          /\ particleStateRef' = Some(updated)
          /\ lastFrame' = [path |-> "hook", node |-> fakeNode, dt |-> dt,
                           stream |-> stream, particles |-> updated,
                           elapsed |-> elapsedSoFar + dt,
                           spawned |-> [ i \in 1..Len(pnode.emitters) |->
                                           spawnedSoFar[i] + spawnCount(pnode.emitters[i], dt) ]]
  /\ frameCount' = frameCount + 1
  /\ UNCHANGED << pnode, hookVars, reconVars, toolVars, probe, agentVars, tweenVars >>

\* The Pixi ticker: tickAllParticles on the current scene's particles node.
PixiFrame(dt, stream) ==
  /\ frameCount < MaxFrames
  /\ \E particles \in { tickParticlesInternal(pnode, dt, stream) } :
       /\ pnode' = [pnode EXCEPT !._particles = Some(particles)]
       /\ lastFrame' = [path |-> "pixi", node |-> pnode, dt |-> dt,
                        stream |-> stream, particles |-> particles]
  /\ frameCount' = frameCount + 1
  /\ UNCHANGED << particleStateRef, hookVars, reconVars, toolVars, probe, agentVars, tweenVars >>

\* spawnParticles on its own
SpawnEmitters ==
  { [e EXCEPT !.rate = rate] : e \in { Spark, Rain }, rate \in { 0, 10, 60, 100 } }

SpawnTimes == { 16, 50, 100, 290, 500, 1000 }

Spawn(emitter, dt, stream) ==
  /\ probe' = [fn |-> "spawnParticles", emitter |-> emitter, dt |-> dt, stream |-> stream,
               result |-> spawnParticles(emitter, dt, stream, 0)]
  /\ UNCHANGED << hookVars, reconVars, toolVars, simVars >>

\* ─── Agent protocol: propose and vote ───────────────────────────────────
MaxAgentCalls == 4

\* uid(): a fresh identifier for every call that asks for one
uid == agentCalls + 1

capMessages(msgs) == IF Len(msgs) > 100 THEN lastMessages(msgs, 100) ELSE msgs

storedProposals(state) == OrElse(state._agentProposals, << >>)

storedMessages(state) == OrElse(state._agentMessages, << >>)

\* requiresVotes: input.requiresVotes || 1
requiredVotes(input) ==
  IF "requiresVotes" \in DOMAIN input /\ input.requiresVotes /= 0 THEN input.requiresVotes ELSE 1

propose(state, actorId, input, ts) ==
  LET id == uid
      proposals == (id :> [id |-> id, from |-> actorId, proposal |-> input.proposal,
                           requiresVotes |-> requiredVotes(input), votes |-> << >>,
                           status |-> "pending", ts |-> ts]) @@ storedProposals(state)
      messages == capMessages(Append(storedMessages(state),
                    [id |-> id, from |-> actorId, to |-> "*", type |-> "proposal",
                     content |-> input.proposal, ts |-> ts]))
  IN [error |-> "", state |-> [_agentProposals |-> Some(proposals), _agentMessages |-> Some(messages)]]

countVotes(votes, vote) == Len(SelectSeq(votes, LAMBDA v : v.vote = vote))

hasVoted(proposal, actorId) == \E i \in 1..Len(proposal.votes) : proposal.votes[i].actorId = actorId

vote_allowsRevote(state, actorId, input, ts) ==
  LET proposals == storedProposals(state)
  IN IF input.proposalId \notin DOMAIN proposals
     THEN [error |-> "Proposal not found", state |-> state]
     ELSE LET proposal == proposals[input.proposalId]
          IN IF proposal.status /= "pending"
             THEN [error |-> "Proposal already " \o proposal.status, state |-> state]
             ELSE LET votes == Append(proposal.votes, [actorId |-> actorId, vote |-> input.vote])
                      approves == countVotes(votes, "approve")
                      rejects == countVotes(votes, "reject")
                      status == IF approves >= proposal.requiresVotes THEN "approved"
                                ELSE IF rejects >= proposal.requiresVotes THEN "rejected"
                                ELSE "pending"
                      updated == [proposals EXCEPT ![input.proposalId] =
                                    [proposal EXCEPT !.votes = votes, !.status = status]]
                      messages == capMessages(Append(storedMessages(state),
                                    [id |-> uid, from |-> actorId, to |-> proposal.from,
                                     type |-> "vote", content |-> input.vote, ts |-> ts]))
                  IN [error |-> "",
                      state |-> [_agentProposals |-> Some(updated), _agentMessages |-> Some(messages)]]

vote(state, actorId, input, ts) ==
  LET proposals == storedProposals(state)
  IN IF input.proposalId \notin DOMAIN proposals
     THEN [error |-> "Proposal not found", state |-> state]
     ELSE LET proposal == proposals[input.proposalId]
          IN IF proposal.status /= "pending"
             THEN [error |-> "Proposal already " \o proposal.status, state |-> state]
             ELSE IF hasVoted(proposal, actorId)
             THEN [error |-> "Already voted", state |-> state]
             ELSE LET votes == Append(proposal.votes, [actorId |-> actorId, vote |-> input.vote])
                      approves == countVotes(votes, "approve")
                      rejects == countVotes(votes, "reject")
                      status == IF approves >= proposal.requiresVotes THEN "approved"
                                ELSE IF rejects >= proposal.requiresVotes THEN "rejected"
                                ELSE "pending"
                      updated == [proposals EXCEPT ![input.proposalId] =
                                    [proposal EXCEPT !.votes = votes, !.status = status]]
                      messages == capMessages(Append(storedMessages(state),
                                    [id |-> uid, from |-> actorId, to |-> proposal.from,
                                     type |-> "vote", content |-> input.vote, ts |-> ts]))
                  IN [error |-> "",
                      state |-> [_agentProposals |-> Some(updated), _agentMessages |-> Some(messages)]]

Actors == { "agent-1", "agent-2", "agent-3" }

ProposeInputs == { [proposal |-> "Do Y"], [proposal |-> "Do Y", requiresVotes |-> 0],
                   [proposal |-> "Do Y", requiresVotes |-> 2] }

VoteInputs == [ proposalId : 1..2, vote : { "approve", "reject" } ]

\* One tool call: the handler runs to its end on the current shared state.
AgentCall(tool, actorId, input, out) ==
  /\ agentState' = out.state
  /\ agentCalls' = agentCalls + 1
  /\ lastAgentCall' = [tool |-> tool, actorId |-> actorId, input |-> input, error |-> out.error]
  /\ UNCHANGED << hookVars, reconVars, toolVars, probe, particleVars, tweenVars >>

Propose(actorId, input) ==
  /\ agentCalls < MaxAgentCalls
  /\ AgentCall("propose", actorId, input, propose(agentState, actorId, input, EpochOffset + agentCalls))

Vote(actorId, input) ==
  /\ agentCalls < MaxAgentCalls
  /\ AgentCall("vote", actorId, input, vote(agentState, actorId, input, EpochOffset + agentCalls))

\* ─── State migrations ───────────────────────────────────────────────────
MaxMigrations == 3

\* Version strings are sequences of characters.
Digits == << "0", "1", "2", "3", "4", "5", "6", "7", "8", "9" >>

isDigit(c) == \E i \in 1..10 : Digits[i] = c

digitValue(c) == (CHOOSE i \in 1..10 : Digits[i] = c) - 1

\* a.split(".")
RECURSIVE split(_, _)
split(str, current) ==
  IF str = << >> THEN << current >>
  ELSE IF Head(str) = "." THEN << current >> \o split(Tail(str), << >>)
  ELSE split(Tail(str), Append(current, Head(str)))

\* parseInt(n, 10) || 0: the leading digits, 0 when there are none
RECURSIVE leadingDigits(_, _)
leadingDigits(str, value) ==
  IF str /= << >> /\ isDigit(Head(str))
  THEN leadingDigits(Tail(str), 10 * value + digitValue(Head(str)))
  ELSE value

parseIntOrZero(str) == leadingDigits(str, 0)

segments(version) ==
  LET parts == split(version, << >>)
  IN [ i \in 1..Len(parts) |-> parseIntOrZero(parts[i]) ]

RECURSIVE compareFrom(_, _, _, _)
compareFrom(pa, pb, i, len) ==
  IF i > len THEN 0
  ELSE LET va == IF i <= Len(pa) THEN pa[i] ELSE 0
           vb == IF i <= Len(pb) THEN pb[i] ELSE 0
       IN IF va < vb THEN -1 ELSE IF va > vb THEN 1 ELSE compareFrom(pa, pb, i + 1, len)

compareSemver_byFirstSegment(a, b) ==
  LET pa == segments(a)
      pb == segments(b)
  IN compareFrom(pa, pb, 1, 1)

compareSemver(a, b) ==
  LET pa == segments(a)
      pb == segments(b)
  IN compareFrom(pa, pb, 1, IF Len(pa) > Len(pb) THEN Len(pa) ELSE Len(pb))

ZeroVersion == << "0", ".", "0", ".", "0" >>

getStateVersion(state) ==
  IF state._version.kind = "string" THEN state._version.chars ELSE ZeroVersion

\* [...migrations].sort((a, b) => compareSemver(a.to, b.to)): a stable sort
RECURSIVE insertSorted(_, _)
insertSorted(sorted, m) ==
  IF sorted = << >> THEN << m >>
  ELSE IF compareSemver(m.to, sorted[Len(sorted)].to) < 0
  THEN Append(insertSorted(SubSeq(sorted, 1, Len(sorted) - 1), m), sorted[Len(sorted)])
  ELSE Append(sorted, m)

RECURSIVE sortMigrations(_)
sortMigrations(migrations) ==
  IF migrations = << >> THEN << >>
  ELSE insertSorted(sortMigrations(SubSeq(migrations, 1, Len(migrations) - 1)),
                    migrations[Len(migrations)])

\* Objects live in a heap, a reference is an index into it. A migration
\* either returns a new object or changes the one it was given and returns it.
migrated(state, migration) == [state EXCEPT !.log = Append(state.log, migration.label)]

migrate(heap, ref, migration) ==
  IF migration.inPlace
  THEN [heap |-> [heap EXCEPT ![ref] = migrated(heap[ref], migration)], ref |-> ref]
  ELSE [heap |-> Append(heap, migrated(heap[ref], migration)), ref |-> Len(heap) + 1]

RECURSIVE applyAll(_, _, _)
applyAll(heap, ref, applicable) ==
  IF applicable = << >> THEN [heap |-> heap, ref |-> ref]
  ELSE LET out == migrate(heap, ref, Head(applicable))
       IN applyAll(out.heap, out.ref, Tail(applicable))

stamped(state, version) == [state EXCEPT !._version = [kind |-> "string", chars |-> version]]

migrateState(heap, state, migrations, currentVersion) ==
  LET fromVersion == getStateVersion(heap[state])
      applicable == SelectSeq(sortMigrations(migrations),
                      LAMBDA m : /\ compareSemver(m.to, fromVersion) > 0
                                 /\ compareSemver(m.to, currentVersion) <= 0)
  IN IF compareSemver(fromVersion, currentVersion) >= 0
     THEN [migrated |-> FALSE, fromVersion |-> fromVersion, toVersion |-> fromVersion,
           state |-> state, heap |-> heap]
     ELSE IF migrations = << >> \/ applicable = << >>
     THEN [migrated |-> FALSE, fromVersion |-> fromVersion, toVersion |-> currentVersion,
           state |-> Len(heap) + 1, heap |-> Append(heap, stamped(heap[state], currentVersion))]
     ELSE LET out == applyAll(Append(heap, heap[state]), Len(heap) + 1, applicable)
          IN [migrated |-> TRUE, fromVersion |-> fromVersion, toVersion |-> currentVersion,
              state |-> out.ref,
              heap |-> [out.heap EXCEPT ![out.ref] = stamped(out.heap[out.ref], currentVersion)]]

V1_0 == << "1", ".", "0" >>
V1_0_0 == << "1", ".", "0", ".", "0" >>
V1_9_0 == << "1", ".", "9", ".", "0" >>
V1_10_0 == << "1", ".", "1", "0", ".", "0" >>
V2_0_0 == << "2", ".", "0", ".", "0" >>

MigrationSet == [ to : { V1_0, V1_9_0, V1_10_0, V2_0_0 }, inPlace : BOOLEAN ]

RECURSIVE listsUpTo(_, _)
listsUpTo(set, n) ==
  IF n = 0 THEN { << >> }
  ELSE LET shorter == listsUpTo(set, n - 1)
       IN shorter \cup { Append(list, x) : list \in shorter, x \in set }

\* every migration carries its place in the array as its label
labelled(list) == [ i \in 1..Len(list) |-> [to |-> list[i].to, inPlace |-> list[i].inPlace, label |-> i] ]

MigrationLists == { labelled(list) : list \in listsUpTo(MigrationSet, MaxMigrations) }

StateVersions ==
  { [kind |-> "absent"], [kind |-> "number"] }
    \cup { [kind |-> "string", chars |-> v] : v \in { ZeroVersion, V1_0_0, V1_10_0, V2_0_0 } }

CurrentVersions == { ZeroVersion, V1_0_0, V1_10_0, V2_0_0 }

Migrate(version, migrations, currentVersion) ==
  LET heap == << [_version |-> version, count |-> 5, log |-> << >>] >>
  IN probe' = [fn |-> "migrateState", heap |-> heap, migrations |-> migrations,
               currentVersion |-> currentVersion,
               result |-> migrateState(heap, 1, migrations, currentVersion)]
     /\ UNCHANGED << hookVars, reconVars, toolVars, simVars >>

\* migrateState on the state a migration returned, with the same migrations
MigrateAgain ==
  /\ probe.fn = "migrateState"
  /\ probe' = [fn |-> "migrateState again", heap |-> probe.result.heap,
               state |-> probe.result.state, migrations |-> probe.migrations,
               currentVersion |-> probe.currentVersion,
               result |-> migrateState(probe.result.heap, probe.result.state,
                                       probe.migrations, probe.currentVersion)]
  /\ UNCHANGED << hookVars, reconVars, toolVars, simVars >>

\* ─── The clocks of arming and of rendering a tween ──────────────────────
\* Date.now(): ms since the epoch; the page's time origin is at EpochOffset
WallClock == EpochOffset + uptime

\* performance.now(): ms since the page's time origin
PerformanceNow == uptime

ArmableTweens ==
  { tween \in Tweens : /\ tween.startedAt = None /\ tween.duration > 0
                       /\ tween.from = 10 /\ tween.to = 30
                       /\ tween.repeat = None /\ tween.yoyo = None
                       /\ tween.easing \in { None, Some("linear") } }

\* scene.update with a tween: startedAt = ctx.timestamp, the time of the call
ArmByUpdate(tween) ==
  /\ armedTween = None
  /\ armedTween' = Some([tween EXCEPT !.startedAt = Some(WallClock)])
  /\ UNCHANGED << uptime, displayed, hookVars, reconVars, toolVars, probe, particleVars, agentVars >>

\* a tween rule effect: startedAt = Date.now()
ArmByRule(tween) ==
  /\ armedTween = None
  /\ armedTween' = Some([tween EXCEPT !.startedAt = Some(WallClock)])
  /\ UNCHANGED << uptime, displayed, hookVars, reconVars, toolVars, probe, particleVars, agentVars >>

TimePasses(ms) ==
  /\ uptime + ms <= MaxElapsed
  /\ uptime' = uptime + ms
  /\ UNCHANGED << armedTween, displayed, hookVars, reconVars, toolVars, probe, particleVars, agentVars >>

\* useSceneTweens: a render interpolates at Date.now()
HookRender ==
  /\ armedTween /= None
  /\ displayed' = [path |-> "useSceneTweens", at |-> WallClock,
               value |-> interpolateTween(armedTween[1], WallClock)]
  /\ UNCHANGED << uptime, armedTween, hookVars, reconVars, toolVars, probe, particleVars, agentVars >>

\* the Pixi ticker: applyTweens at performance.now(); a node whose
\* tween.startedAt is falsy, and a null value, leave the object alone
PixiRender ==
  /\ armedTween /= None
  /\ armedTween[1].startedAt /= None /\ armedTween[1].startedAt[1] /= 0
  /\ interpolateTween(armedTween[1], PerformanceNow) /= None
  /\ displayed' = [path |-> "pixi", at |-> WallClock,
               value |-> interpolateTween(armedTween[1], PerformanceNow)]
  /\ UNCHANGED << uptime, armedTween, hookVars, reconVars, toolVars, probe, particleVars, agentVars >>

\* ─── Specifications ─────────────────────────────────────────────────────
vars == << hookVars, reconVars, toolVars, probe, simVars >>

\* The rule engine hook alone: no renderer is mounted.
RendererIdle ==
  /\ doc = GroupNode("root", 0, <<>>)
  /\ objs = EmptyStage.objs
  /\ nodeMap = EmptyStage.nodeMap
  /\ passes = 0
  /\ lastPass = [created |-> {}, destroyed |-> {}, threw |-> FALSE]

Init == HookInit /\ RendererIdle /\ ToolsIdle /\ SimIdle

Next ==
  \/ \E rs \in RuleSets : SetRules(rs)
  \/ \E meta \in [paused : BOOLEAN, tickSpeed : TickSpeeds] : SetWorldMeta(meta)
  \/ \E sc \in Scenes : SetScene(sc)
  \/ \E f \in frames : FrameSkip(f)
  \/ \E f \in frames : FrameTick(f)
  \/ \E t \in timers : TimerFire(t)
  \/ Unmount
  \/ Advance

Spec == Init /\ [][Next]_vars

\* The renderer alone: the rule engine is paused with no tick rule.
HookIdle ==
  /\ HookInit
  /\ rules = << RuleOff, RuleTimer >>
  /\ worldMeta = [paused |-> TRUE, tickSpeed |-> StepMs]

InitRecon == HookIdle /\ ReconInit /\ ToolsIdle /\ SimIdle

NextRecon == \E d \in Docs : SyncScene(d)

SpecRecon == InitRecon /\ [][NextRecon]_vars

\* The renderer fed scenes with hard-to-build nodes, starting from a scene
\* that was synced without an exception.
InitHard ==
  /\ HookIdle
  /\ ToolsIdle
  /\ SimIdle
  /\ \E d \in HardDocs :
       \E st \in {syncScene(EmptyStage.objs, EmptyStage.nodeMap, d)} :
         /\ ~st.thrown
         /\ doc = d
         /\ objs = st.objs
         /\ nodeMap = st.nodeMap
         /\ passes = 0
         /\ lastPass = [created |-> st.created, destroyed |-> st.destroyed, threw |-> FALSE]

NextHard == \E d \in HardDocs : SyncScene(d)

SpecHard == InitHard /\ [][NextHard]_vars

\* The scene tools alone, called on a shared state that is still empty.
InitTools == HookIdle /\ RendererIdle /\ ToolsIdle /\ SimIdle

NextTools ==
  \/ \E input \in AddInputs : SceneAdd(input)
  \/ \E input \in UpdateInputs : SceneUpdate(input)
  \/ \E input \in RemoveInputs : SceneRemove(input)
  \/ \E input \in SetInputs : SceneSet(input)
  \/ \E input \in BatchInputs : SceneBatch(input)

SpecTools == InitTools /\ [][NextTools]_vars

\* The rule management tools alone, called on a state without rules.
NextRuleTools ==
  \/ \E input \in RuleInputs : RulesSet(input)
  \/ \E id \in RuleIds : RulesRemove([id |-> id])
  \/ \E input \in WorldInputs : RulesWorld(input)

SpecRuleTools == InitTools /\ [][NextRuleTools]_vars

\* Selector matching alone.
NextSelector == \E node \in ProbeNodes, selector \in ProbeSelectors : MatchSelector(node, selector)

SpecSelector == InitTools /\ [][NextSelector]_vars

\* Tween interpolation alone, one tween at one time per behaviour.
NextTween ==
  /\ probe.fn = "none"
  /\ \E tween \in Tweens, now \in EpochOffset..(EpochOffset + MaxElapsed) : Interpolate(tween, now)

SpecTween == InitTools /\ [][NextTween]_vars

\* A tween evaluated frame after frame, the time never going back.
NextTweenFrames ==
  \/ NextTween
  \/ \E now \in EpochOffset..(EpochOffset + MaxElapsed) : InterpolateAgain(now)

SpecTweenFrames == InitTools /\ [][NextTweenFrames]_vars

\* The particle hook alone, on one particles node.
InitParticles ==
  /\ HookIdle /\ RendererIdle /\ ToolsIdle
  /\ agentState = [_agentProposals |-> None, _agentMessages |-> None]
  /\ agentCalls = 0
  /\ lastAgentCall = [tool |-> "none"]
  /\ uptime = 0
  /\ armedTween = None
  /\ displayed = [path |-> "none"]
  /\ pnode \in ParticleNodes
  /\ particleStateRef = None
  /\ frameCount = 0
  /\ lastFrame = NoFrame

NextParticleHook == \E dt \in FrameTimes, stream \in RandomStreams : HookFrame(dt, stream)

SpecParticleHook == InitParticles /\ [][NextParticleHook]_vars

\* The Pixi renderer's ticker alone, on one particles node.
NextParticlePixi == \E dt \in FrameTimes, stream \in RandomStreams : PixiFrame(dt, stream)

SpecParticlePixi == InitParticles /\ [][NextParticlePixi]_vars

\* spawnParticles alone, one call per behaviour.
NextSpawn ==
  /\ probe.fn = "none"
  /\ \E emitter \in SpawnEmitters, dt \in SpawnTimes, stream \in RandomStreams :
       Spawn(emitter, dt, stream)

SpecSpawn == InitTools /\ [][NextSpawn]_vars

\* The proposal and vote tools alone, called in any order by any actor.
NextAgents ==
  \/ \E input \in ProposeInputs : Propose("agent-1", input)
  \/ \E actorId \in Actors, input \in VoteInputs : Vote(actorId, input)

SpecAgents == InitTools /\ [][NextAgents]_vars

\* migrateState alone: one state migrated, then migrated once more.
NextMigrate ==
  \/ /\ probe.fn = "none"
     /\ \E version \in StateVersions, migrations \in MigrationLists,
           currentVersion \in CurrentVersions :
          Migrate(version, migrations, currentVersion)
  \/ MigrateAgain

SpecMigrate == InitTools /\ [][NextMigrate]_vars

\* A tween armed at some time and rendered by either path as time passes.
NextClocks ==
  \/ \E tween \in ArmableTweens : ArmByUpdate(tween)
  \/ \E tween \in ArmableTweens : ArmByRule(tween)
  \/ \E ms \in { 1, 2, 4 } : TimePasses(ms)
  \/ HookRender
  \/ PixiRender

SpecClocks == InitTools /\ [][NextClocks]_vars

\* ─── Claims about the rule engine hook ──────────────────────────────────
AllRules ==
  {RuleDx, RuleDy, RuleCount, RuleRemove, RuleSpawn, RuleTween, RuleMood, RuleStyle,
   RuleJitter, RuleOff, RuleTimer}

nodeOf(sc, id) ==
  LET all == collectNodes(sc) IN all[CHOOSE i \in 1..Len(all) : all[i].id = id]

nodeIds(sc) == LET all == collectNodes(sc) IN {all[i].id : i \in 1..Len(all)}

\* Sum over the rules (in array order) that were applied to node `id` of the
\* rule's fixed delta on one field.
RECURSIVE sumApplied(_, _, _, _, _)
sumApplied(tickRules, j, applied, id, field) ==
  IF j > Len(tickRules) THEN 0
  ELSE LET eff == tickRules[j].effect
           d == IF <<tickRules[j].id, id>> \notin applied THEN 0
                ELSE IF field = "x" /\ eff.type = "transform" THEN OrElse(eff.dx, 0)
                ELSE IF field = "y" /\ eff.type = "transform" THEN OrElse(eff.dy, 0)
                ELSE IF field = "n" /\ eff.type = "counter" THEN OrElse(eff.delta, 0)
                ELSE 0
       IN d + sumApplied(tickRules, j + 1, applied, id, field)

jittered(tickRules, applied, id) ==
  \E j \in 1..Len(tickRules) :
    <<tickRules[j].id, id>> \in applied /\ tickRules[j].effect.variance /= None

\* The published scene is the one the last tick produced.
JustTicked == lastTick /= None /\ simScene = lastTick[1].published

\* C1: within one tick the effects of all rules that matched a node compose:
\* right after a tick every non-root node of the published document carries
\* the sum of the dx, dy and counter deltas of all the (variance-free) rules
\* applied to it in that tick, and nodes no rule applied to are unchanged.
C1_EffectsCompose ==
  JustTicked =>
    \A id \in nodeIds(simScene) \ {"root"} :
      LET t == lastTick[1]
          before == nodeOf(t.prev, id)
          after == nodeOf(simScene, id)
      IN ~jittered(t.tickRules, t.applied, id) =>
           /\ after.x = before.x + sumApplied(t.tickRules, 1, t.applied, id, "x")
           /\ after.y = before.y + sumApplied(t.tickRules, 1, t.applied, id, "y")
           /\ OrElse(after.n, 0) = OrElse(before.n, 0) + sumApplied(t.tickRules, 1, t.applied, id, "n")
           /\ (\A r \in AllRules : <<r.id, id>> \notin t.applied) => after = before

cooldownOf(ruleId) ==
  LET r == CHOOSE q \in AllRules : q.id = ruleId IN OrElse(r.condition.cooldownMs, 0)

lastFireOf(ruleId, nodeId) ==
  LET ts == {e[3] : e \in {e \in fireLog : e[1] = ruleId /\ e[2] = nodeId}} IN
  IF ts = {} THEN None ELSE Some(CHOOSE t \in ts : \A u \in ts : u <= t)

cooldownEntry(ruleId, nodeId) ==
  IF ruleId \in DOMAIN cooldownsRef /\ nodeId \in DOMAIN cooldownsRef[ruleId]
  THEN Some(cooldownsRef[ruleId][nodeId]) ELSE None

\* C2: for a rule with a cooldown, the cooldown entry of (ruleId, nodeId) is
\* the time of the rule's last firing on that node (effect applied or
\* structural operation queued), and so two firings of a rule on one node are
\* at least cooldownMs apart.
C2_CooldownTracksFiring ==
  /\ \A r \in {q \in AllRules : q.condition.cooldownMs /= None} :
       \A id \in {"root", "f1", "g1", "f2"} :
         cooldownEntry(r.id, id) = lastFireOf(r.id, id)
  /\ \A a \in fireLog : \A b \in fireLog :
       (a[1] = b[1] /\ a[2] = b[2] /\ a[3] < b[3]) => b[3] - a[3] >= cooldownOf(a[1])

\* The tree shape of a scene: the child ids of every group, in order.
structure(sc) ==
  [g \in {id \in nodeIds(sc) : nodeOf(sc, id).type = "group"} |->
     IF g \in DOMAIN sc.kids THEN [i \in 1..Len(sc.kids[g]) |-> sc.kids[g][i].id] ELSE <<>>]

isPrefix(a, b) == Len(a) <= Len(b) /\ SubSeq(b, 1, Len(a)) = a

\* C3: a tick never changes the structure of the tree: the published working
\* copy has the node ids and child order of the pre-tick document, also when
\* spawn or remove effects fire; those only append to the pending queue.
C3_TickKeepsStructure ==
  [][tickCountRef' /= tickCountRef =>
       /\ structure(simScene') = structure(simScene)
       /\ isPrefix(pendingOpsRef, pendingOpsRef')
       /\ Len(pendingOpsRef') = Len(pendingOpsRef) + Cardinality(lastTick'[1].queued)]_vars

C3_Witness ==
  /\ JustTicked
  /\ <<"remove", "f1">> \in lastTick[1].queued
  /\ <<"spawn", "f1">> \in lastTick[1].queued
  /\ structure(simScene) = structure(lastTick[1].prev)
  /\ "f1" \in nodeIds(simScene)

RECURSIVE flatten(_)
flatten(ss) == IF ss = <<>> THEN <<>> ELSE Head(ss) \o flatten(Tail(ss))

serials(ops) == [i \in 1..Len(ops) |-> ops[i].serial]

\* C4: every structural operation queued is handed to scene.batch exactly once
\* and in queue order (the operations sent so far, followed by those still
\* pending, are the operations queued, in order); while mounted, pending
\* operations always have the one flush timer outstanding; a firing timer
\* sends everything pending in one call; there is never more than one timer.
C4_BatchedExactlyOnce ==
  /\ [](/\ serials(flatten(toolCalls)) \o serials(pendingOpsRef)
             = [i \in 1..queuedCount |-> i]
        /\ Cardinality(timers) <= 1
        /\ (mounted /\ pendingOpsRef /= <<>>) =>
              (batchTimerRef /= 0 /\ \E t \in timers : t.h = batchTimerRef))
  /\ [][(timers' /= timers /\ timers' = {} /\ mounted' /\ pendingOpsRef /= <<>>) =>
          /\ Len(toolCalls') = Len(toolCalls) + 1
          /\ serials(toolCalls'[Len(toolCalls')]) = serials(pendingOpsRef)
          /\ pendingOpsRef' = <<>>]_vars

C4_Witness ==
  /\ mounted
  /\ Len(toolCalls) = 1
  /\ Len(toolCalls[1]) >= 3
  /\ \E i \in 1..Len(toolCalls[1]) : toolCalls[1][i].op = "add"
  /\ \E i \in 1..Len(toolCalls[1]) : toolCalls[1][i].op = "remove"
  /\ pendingOpsRef = <<>>

\* C5: once the hook is unmounted no tick is evaluated and no scene.batch
\* call is issued any more, whatever was queued or scheduled at teardown.
C5_NothingAfterTeardown ==
  [][~mounted => (toolCalls' = toolCalls /\ tickCountRef' = tickCountRef
                  /\ simScene' = simScene)]_vars

C5_Witness ==
  /\ ~mounted
  /\ pendingOpsRef /= <<>>
  /\ batchTimerRef /= 0
  /\ lastTick /= None
  /\ clock >= lastTick[1].at + FlushDelayMs

\* C6: while paused, or with no enabled tick rule, no frame callback is
\* outstanding and no tick is evaluated; otherwise (mounted, unpaused, some
\* enabled tick rule) exactly the frame callback rafRef names is outstanding.
C6_HaltsWhenPausedOrIdle ==
  /\ [](mounted =>
         IF worldMeta.paused \/ tickRulesOf(rules) = <<>>
         THEN frames = {} /\ rafRef = 0
         ELSE \E f \in frames :
                /\ frames = {f}
                /\ f.h = rafRef
                /\ f.tickRules = tickRulesOf(rules)
                /\ f.tickSpeed = worldMeta.tickSpeed)
  /\ [][(mounted /\ (worldMeta.paused \/ tickRulesOf(rules) = <<>>)) =>
          tickCountRef' = tickCountRef]_vars

C6_Witness ==
  /\ mounted
  /\ worldMeta.paused
  /\ tickRulesOf(rules) /= <<>>
  /\ tickCountRef > 0
  /\ frames = {}

\* ─── Claims about the renderer's scene diffing ──────────────────────────
\* The non-root nodes of a document, each with the id of its parent group.
RECURSIVE placedSeq(_, _)
placedSeq(children, parentId) ==
  IF children = <<>> THEN {}
  ELSE LET n == Head(children) IN
       {[node |-> n, parent |-> parentId]}
         \cup (IF n.type = "group" THEN placedSeq(n.children, n.id) ELSE {})
         \cup placedSeq(Tail(children), parentId)

placed(d) == placedSeq(d.children, d.id)

docIds(d) == {p.node.id : p \in placed(d)}

\* The groups of a document, the root included.
groupsOf(d) == {d} \cup {p.node : p \in {q \in placed(d) : q.node.type = "group"}}

tracked(map, id) == id \in DOMAIN map

containerOf(id) ==
  IF id = "root" THEN RootContainer
  ELSE IF tracked(nodeMap, id) THEN nodeMap[id] ELSE NoObj

\* The live display objects, attached somewhere, that render node `id`.
objectsFor(id) ==
  {o \in DOMAIN objs : objs[o].meta.nodeId = id /\ objs[o].parent /= NoObj}

\* The node's own (non-child) fields.
ownFields(n) == [id |-> n.id, type |-> n.type, v |-> n.v]

\* C7: after a pass over document D the render tree matches D: every non-root
\* node of D has exactly one tracked render object, attached under the render
\* object of its document parent, and no render object stays tracked or
\* attached for an id that is not in D.
C7_TreeMatchesDocument ==
  /\ \A p \in placed(doc) :
       /\ tracked(nodeMap, p.node.id)
       /\ objectsFor(p.node.id) = {nodeMap[p.node.id]}
       /\ objs[nodeMap[p.node.id]].parent = containerOf(p.parent)
  /\ \A id \in DOMAIN nodeMap : id \in docIds(doc)
  /\ \A o \in DOMAIN objs \ {RootContainer} : objs[o].meta.nodeId \in docIds(doc)

\* C8: a pass over the same document as the pass before it creates no render
\* object, destroys none, and leaves the id-to-object map and the render tree
\* as they were.
C8_SecondPassIsNoOp ==
  [][(passes' = passes + 1 /\ doc' = doc)
       => /\ lastPass'.created = {}
          /\ lastPass'.destroyed = {}
          /\ nodeMap' = nodeMap
          /\ objs' = objs]_vars

\* C9: across a pass a node that keeps its id, its type and its non-child
\* fields keeps its render object; a node whose type changed, or a non-group
\* node whose fields changed, has its old object destroyed and a new one
\* created.
C9_IdentityAcrossPass ==
  [][passes' = passes + 1
       => \A p \in placed(doc') : \A q \in placed(doc) :
            (p.node.id = q.node.id /\ tracked(nodeMap, q.node.id))
              => IF ownFields(p.node) = ownFields(q.node)
                 THEN /\ tracked(nodeMap', p.node.id)
                      /\ nodeMap'[p.node.id] = nodeMap[q.node.id]
                 ELSE (p.node.type /= q.node.type \/ p.node.type /= "group")
                        => /\ nodeMap[q.node.id] \in lastPass'.destroyed
                           /\ tracked(nodeMap', p.node.id)
                           /\ nodeMap'[p.node.id] \in lastPass'.created]_vars

\* C10: inside every group's container the child render objects stand in the
\* order of the group's children in the document.
C10_SiblingOrderMatches ==
  \A g \in groupsOf(doc) :
    LET c == containerOf(g.id) IN
    (c /= NoObj /\ c \in DOMAIN objs)
      => LET rendered == [i \in 1..Len(objs[c].children) |-> objs[objs[c].children[i]].meta.nodeId]
             wanted == [i \in 1..Len(g.children) |-> g.children[i].id]
             shown == {rendered[i] : i \in 1..Len(rendered)}
             known == {wanted[i] : i \in 1..Len(wanted)}
         IN SelectSeq(rendered, LAMBDA id : id \in known)
              = SelectSeq(wanted, LAMBDA id : id \in shown)


\* The nodes of the document whose render object cannot be built, and the
\* groups that hold one.
RECURSIVE holdsBadNode(_)
holdsBadNode(n) ==
  \/ constructionThrows(n)
  \/ /\ n.type = "group"
     /\ \E i \in 1..Len(n.children) : holdsBadNode(n.children[i])

\* C11: a pass never ends by an exception, whatever single node cannot be
\* built, and every node outside the bad node's subtree is reconciled as
\* usual: it has its tracked render object under its parent's container.
C11_BadNodeIsIsolated ==
  /\ ~lastPass.threw
  /\ \A p \in placed(doc) :
       ~holdsBadNode(p.node)
         => /\ tracked(nodeMap, p.node.id)
            /\ nodeMap[p.node.id] \in DOMAIN objs
            /\ objs[nodeMap[p.node.id]].parent = containerOf(p.parent)

\* ─── Claims about the scene tools ───────────────────────────────────────
allIds(scn) == {"root"} \cup docIds(scn.root)

groupIds(scn) == { g.id : g \in groupsOf(scn.root) }

\* An operation that names a node or a parent the working copy does not hold.
opFails(scn, op) ==
  \/ op.op = "update" /\ op.nodeId \notin allIds(scn)
  \/ op.op = "add" /\ truthy(op, "parentId") /\ op.parentId \notin groupIds(scn)

\* The working copy of a batch after its first i operations.
workingCopy(state, operations, i, ts) ==
  batchLoop(getScene(state), SubSeq(operations, 1, i), << >>, ts).scn

isError(result) == "error" \in DOMAIN result

BatchOutcome(state, call, after) ==
  LET ops == call.input.operations
      w(i) == workingCopy(state, ops, i, EpochOffset + callCount)
  IN /\ call.error = None
     /\ call.published = 1
     /\ Len(call.results) = Len(ops)
     /\ \A i \in 1..Len(ops) :
          /\ call.results[i].op = ops[i].op
          /\ isError(call.results[i]) <=> opFails(w(i - 1), ops[i])
          /\ opFails(w(i - 1), ops[i]) => w(i) = w(i - 1)
          /\ ~opFails(w(i - 1), ops[i]) /\ ops[i].op = "set"
               => w(i).background = ops[i].background
          /\ ~opFails(w(i - 1), ops[i]) /\ ops[i].op = "add"
               => ops[i].node.id \in allIds(w(i))
     /\ after._scene = Some(w(Len(ops)))

\* C12: a batch call handles every operation of its list in order; an
\* operation that fails gives exactly one error result in its place, leaves
\* the working copy as it was and lets the later operations apply; the call
\* itself never throws and publishes the working copy exactly once.
C12_BatchIsolatesFailures ==
  [][ lastCall'.tool = "batch" /\ callCount' = callCount + 1
        => BatchOutcome(ctxState, lastCall', ctxState') ]_vars

C12_Witness ==
  /\ lastCall.tool = "batch"
  /\ Len(lastCall.results) = 2
  /\ isError(lastCall.results[1])
  /\ lastCall.input.operations[1].op = "update"
  /\ lastCall.input.operations[2].op = "set"
  /\ getScene(ctxState).background = "#000"
  /\ lastCall.published = 1

\* The individual tool an operation of a batch corresponds to, called with the
\* operation's fields as its input.
individualTool(state, op, ts) ==
  CASE op.op = "add" -> sceneAdd(state, omit(op, {"op"}))
    [] op.op = "update" -> sceneUpdate(state, omit(op, {"op"}), ts)
    [] op.op = "remove" -> sceneRemove(state, omit(op, {"op"}))
    [] op.op = "set" -> sceneSet(state, omit(op, {"op"}))

\* ctx.state after the individual tools were called one after another, each
\* call with a later timestamp.
RECURSIVE oneByOne(_, _, _)
oneByOne(state, operations, ts) ==
  IF operations = << >> THEN state
  ELSE oneByOne(individualTool(state, Head(operations), ts).state, Tail(operations), ts + 1)

\* A tree with the startedAt of every tween struck out.
RECURSIVE unstamped(_)
RECURSIVE unstampedSeq(_)
unstampedSeq(children) ==
  IF children = << >> THEN << >>
  ELSE << unstamped(Head(children)) >> \o unstampedSeq(Tail(children))

unstamped(node) ==
  LET plain == IF "tween" \in DOMAIN node
               THEN assign(node, [tween |-> omit(node.tween, {"startedAt"})])
               ELSE node
  IN IF hasChildren(node)
     THEN assign(plain, [children |-> unstampedSeq(node.children)])
     ELSE plain

sameDocument(a, b) == unstamped(a.root) = unstamped(b.root) /\ a.background = b.background

\* C13: the document a batch call publishes is the document the individual
\* add/update/remove/set tools leave when called in the same order, apart from
\* the tween timestamps; an update that follows the add of its node in the
\* same batch finds the node.
C13_BatchEqualsOneByOne ==
  [][ lastCall'.tool = "batch" /\ callCount' = callCount + 1
        => LET ops == lastCall'.input.operations
           IN /\ sameDocument(getScene(ctxState'), getScene(oneByOne(ctxState, ops, timestamp)))
              /\ \A i \in 1..Len(ops) : \A j \in (i + 1)..Len(ops) :
                   /\ ops[i].op = "add" /\ ~isError(lastCall'.results[i])
                   /\ ops[j].op = "update" /\ ops[j].nodeId = ops[i].node.id
                   /\ \A k \in (i + 1)..(j - 1) : ops[k].op # "remove"
                   => ~isError(lastCall'.results[j]) ]_vars

C13_Witness ==
  /\ lastCall.tool = "batch"
  /\ Len(lastCall.input.operations) = 2
  /\ lastCall.input.operations[1].op = "add"
  /\ lastCall.input.operations[2].op = "update"
  /\ \A i \in 1..2 : ~isError(lastCall.results[i])
  /\ \E p \in placed(getScene(ctxState).root) :
       p.node.id = "a" /\ "tween" \in DOMAIN p.node /\ p.node.tween.startedAt = EpochOffset + callCount - 1

Range(s) == { s[i] : i \in DOMAIN s }

\* A tree without the nodes that carry one of the ids, at any depth, and
\* without their subtrees; everything else keeps its parent and its order.
RECURSIVE pruned(_, _)
prunedSeq(children, ids) ==
  LET RECURSIVE keep(_)
      keep(i) ==
        IF i > Len(children) THEN << >>
        ELSE (IF children[i].id \in ids THEN << >> ELSE << pruned(children[i], ids) >>)
               \o keep(i + 1)
  IN keep(1)

pruned(node, ids) ==
  IF hasChildren(node) THEN [node EXCEPT !.children = prunedSeq(node.children, ids)] ELSE node

\* Node ids are pairwise distinct across the whole tree of the shared scene.
idsDistinct(state) == uniqueIds(idsOfNode(getScene(state).root))

\* C14: after remove with nodeIds containing A, neither A nor a node of A's
\* subtree is reachable from the root, whatever A's depth; every other node
\* keeps its parent and sibling order, and the root is never removed.
C14_RemoveDetachesSubtree ==
  [][ lastCall'.tool = "remove" /\ callCount' = callCount + 1
        /\ "nodeIds" \in DOMAIN lastCall'.input
        => /\ getScene(ctxState').root.id = "root"
           /\ getScene(ctxState').root
                = pruned(getScene(ctxState).root, Range(lastCall'.input.nodeIds) \ {"root"}) ]_vars

\* C16: in every scene reachable from the empty one by add, update, remove,
\* set and batch calls, node ids are pairwise distinct across the whole tree.
C16_IdsPairwiseDistinct == idsDistinct(ctxState)

\* C15: an update whose nodeId is not in the document, and an add whose
\* parentId does not name a group of the document, fail with a named error,
\* publish nothing and leave the shared state exactly as it was.
C15_ReferenceErrorsAreRaised ==
  [][ /\ callCount' = callCount + 1
      /\ \/ /\ lastCall'.tool = "update"
            /\ lastCall'.input.nodeId \notin allIds(getScene(ctxState))
         \/ /\ lastCall'.tool = "add"
            /\ "parentId" \in DOMAIN lastCall'.input
            /\ lastCall'.input.parentId \notin groupIds(getScene(ctxState))
      => /\ lastCall'.error # None
         /\ lastCall'.published = 0
         /\ ctxState' = ctxState ]_vars

\* ─── Claims about the rule management tools ─────────────────────────────
ruleIdsOf(state) == [ i \in 1..Len(storedRules(state)) |-> storedRules(state)[i].id ]

\* The rule a set call stores for an input when nothing was stored before.
freshRule(input) ==
  storedRules(rulesSet([_scene |-> None, _rules |-> None, _worldMeta |-> None], input).state)[1]

UpsertStep ==
  LET before == storedRules(ctxState)
      after == storedRules(ctxState')
      input == lastCall'.input
      at == { i \in 1..Len(before) : before[i].id = input.id }
  IN /\ lastCall'.tool = "_rules.set" /\ at # {}
          => /\ Len(after) = Len(before)
             /\ \A i \in 1..Len(before) :
                  after[i] = IF i \in at THEN freshRule(input) ELSE before[i]
     /\ lastCall'.tool = "_rules.set" /\ at = {}
          => after = Append(before, freshRule(input))
     /\ lastCall'.tool = "_rules.remove" /\ at = {} => after = before
     /\ lastCall'.tool = "_rules.remove" => input.id \notin Range(ruleIdsOf(ctxState'))

\* C17: rule management is upsert by id: the rule list never holds two rules
\* with one id; setting an id that exists replaces that rule entirely where
\* it stands, setting a new id appends, and removing an absent id leaves the
\* list as it was.
C17_UpsertById ==
  /\ [] uniqueIds(ruleIdsOf(ctxState))
  /\ [][ callCount' = callCount + 1 => UpsertStep ]_vars

C17_Witness ==
  /\ lastCall.tool = "_rules.set"
  /\ lastCall.results[1].action = "updated"
  /\ Len(storedRules(ctxState)) = 2
  /\ storedRules(ctxState)[1].id = lastCall.input.id
  /\ storedRules(ctxState)[1].name = lastCall.input.name
  /\ storedRules(ctxState)[1].enabled

\* C18: after any call of the world-metadata setter the stored tickSpeed lies
\* within 16..2000 ms, whatever tickSpeed the call supplied.
C18_TickSpeedClamped ==
  lastCall.tool = "_rules.world" => storedWorldMeta(ctxState).tickSpeed \in 16..2000

\* ─── Claims about selector matching ─────────────────────────────────────
\* What the selector syntax says a selector matches.
selects(selector, node) ==
  CASE selector.kind = "any" -> node.entityType /= Undefined
    [] selector.kind = "entityType" -> node.entityType = selector.value
    [] selector.kind = "tag" ->
         "tags" \in DOMAIN node /\ selector.value \in Range(node.tags)
    [] selector.kind = "name" -> node.name = selector.value
    [] selector.kind = "type" -> node.type = selector.value
    [] OTHER -> FALSE

\* C19: selector matching is a total function of the node alone: "*" matches
\* exactly the nodes with a non-null entity type, "entityType:v", "name:v" and
\* "type:v" match by equality on that field, "tag:v" by membership in the
\* tags, and any other string matches no node.
C19_SelectorMatching ==
  probe.fn = "nodeMatchesSelector"
    => /\ probe.result \in BOOLEAN
       /\ probe.result <=> selects(probe.selector, probe.node)

\* ─── Claims about tween interpolation ───────────────────────────────────
sameNumber(a, b) == a.num * b.den = b.num * a.den

returns(n) == probe.result /= None /\ sameNumber(probe.result[1], Number(n))

\* The piecewise definition, each case under the cases before it failing.
Piecewise(tween, now) ==
  LET elapsed == now - tween.startedAt[1] - OrElse(tween.delay, 0)
      repeat == OrElse(tween.repeat, 0)
      yoyo == OrElse(tween.yoyo, FALSE)
      duration == tween.duration
      iteration == elapsed \div duration
      p == elapsed % duration
      reflected == IF yoyo /\ iteration % 2 = 1 THEN duration - p ELSE p
      d3 == duration * duration * duration
  IN IF elapsed < 0 THEN returns(tween.from)
     ELSE IF duration <= 0 THEN returns(tween.to)
     ELSE IF repeat >= 0 /\ iteration > repeat
     THEN (IF yoyo /\ repeat % 2 = 0 THEN returns(tween.from) ELSE returns(tween.to))
     ELSE /\ probe.result /= None
          /\ sameNumber(probe.result[1],
               [num |-> tween.from * d3 + (tween.to - tween.from) * eased(tween, reflected, duration),
                den |-> d3])

playsOnce(tween) == OrElse(tween.repeat, 0) = 0 /\ ~OrElse(tween.yoyo, FALSE)

atMost(a, b) == a.num * b.den <= b.num * a.den

\* Later in time, never a smaller value, for a rising linear tween.
NonDecreasing ==
  (/\ probe.fn = "interpolateTween" /\ probe'.fn = "interpolateTween"
   /\ probe'.tween = probe.tween /\ probe'.now >= probe.now
   /\ probe.tween.startedAt /= None /\ playsOnce(probe.tween)
   /\ probe.tween.easing = Some("linear") /\ probe.tween.to > probe.tween.from)
    => atMost(probe.result[1], probe'.result[1])

EndsAt(startOffset, positiveOnly) ==
  (probe.fn = "interpolateTween" /\ probe.tween.startedAt /= None /\ playsOnce(probe.tween))
    => LET start == probe.tween.startedAt[1] + startOffset
       IN /\ (probe.now = start /\ (positiveOnly => probe.tween.duration > 0))
               => returns(probe.tween.from)
          /\ probe.now = start + probe.tween.duration => returns(probe.tween.to)

C22_EasingDefaultsToEaseInOut ==
  (/\ probe.fn = "interpolateTween" /\ probe.tween.startedAt /= None
   /\ probe.tween.duration > 0
   /\ (probe.tween.easing = None \/ probe.tween.easing[1] \notin KnownEasings))
    => /\ probe.result /= None
       /\ \E known \in Tweens :
            /\ known = [probe.tween EXCEPT !.easing = Some("ease-in-out")]
            /\ sameNumber(probe.result[1], interpolateTween(known, probe.now)[1])

\* ─── Claims about the particle simulation ───────────────────────────────
\* the particle moves at some speed and direction within the emitter's ranges
withinRanges(p, emitter) ==
  \E halves \in (2 * emitter.speed.min)..(2 * emitter.speed.max),
     angle \in { a \in emitter.direction.min..emitter.direction.max : a % 90 = 0 } :
       LET speed == reduced([num |-> halves, den |-> 2])
       IN /\ p.vx = times(MathCos(Number(angle)), speed)
          /\ p.vy = times(MathSin(Number(angle)), speed)

\* C23: when rate * dt / 1000 is an integer k, spawnParticles returns exactly
\* k particles, each of age 0 and with a speed and a direction within the
\* emitter's ranges.
C23_SpawnsExactlyK ==
  (probe.fn = "spawnParticles" /\ (probe.emitter.rate * probe.dt) % 1000 = 0)
    => /\ Len(probe.result) = (probe.emitter.rate * probe.dt) \div 1000
       /\ \A i \in 1..Len(probe.result) :
            /\ probe.result[i].age = 0
            /\ withinRanges(probe.result[i], probe.emitter)

agesOf(particles) == [ i \in 1..Len(particles) |-> particles[i].age ]

\* the previous particles that are still alive after dt more, aged by dt
survivorAges(node, dt) ==
  LET alive == SelectSeq(node._particles[1], LAMBDA p : p.age + dt < p.lifetime)
  IN [ i \in 1..Len(alive) |-> alive[i].age + dt ]

RECURSIVE spawnedBy(_, _)
spawnedBy(emitters, dt) ==
  IF emitters = << >> THEN 0
  ELSE spawnCount(Head(emitters), dt) + spawnedBy(Tail(emitters), dt)

\* the ages before the cap: the survivors in their order, then the new ones
uncappedAges(node, dt) ==
  survivorAges(node, dt) \o [ i \in 1..spawnedBy(node.emitters, dt) |-> 0 ]

lastOf(list, n) == SubSeq(list, Len(list) - n + 1, Len(list))

\* C24: after a particle tick the list holds at most maxParticles particles
\* (200 when unset), every particle in it that was there before the tick has
\* age < lifetime, and what the
\* cap evicted are the oldest particles: the list is the youngest end of the
\* survivors followed by the new particles, none evicted being younger than
\* one that is kept.
C24_CapEvictsOldest ==
  lastFrame.path = "hook"
    => LET node == lastFrame.node
           max == IF node.maxParticles = None THEN 200 ELSE node.maxParticles[1]
           ages == uncappedAges(node, lastFrame.dt)
           kept == IF Len(ages) > max THEN max ELSE Len(ages)
       IN /\ Len(lastFrame.particles) <= max
          /\ \A i \in 1..Len(lastFrame.particles) :
               lastFrame.particles[i].age > 0
                 => lastFrame.particles[i].age < lastFrame.particles[i].lifetime
          /\ agesOf(lastFrame.particles) = lastOf(ages, kept)
          /\ \A i \in 1..(Len(ages) - kept), j \in (Len(ages) - kept + 1)..Len(ages) :
               ages[i] >= ages[j]

\* the default cap of 200 evicting aged particles in favour of new ones
C24_Witness ==
  /\ lastFrame.path = "hook"
  /\ lastFrame.node.maxParticles = None
  /\ Len(lastFrame.particles) = 200
  /\ Len(survivorAges(lastFrame.node, lastFrame.dt)) > 50
  /\ lastFrame.particles[1].age > 0
  /\ lastFrame.particles[200].age = 0

\* C25: a particle frame of the renderer leaves the particles node of the
\* scene it was handed as it was, field for field.
C25_DocumentUntouched == [][pnode' = pnode]_vars

\* C29: the renderer's own particle step returns the list the pure simulator
\* returns for the same node, dt and random draws.
C29_SameNextParticles ==
  lastFrame.path = "pixi"
    => lastFrame.particles = tickParticleNode(lastFrame.node, lastFrame.dt, lastFrame.stream)

\* C30: over the frames run so far, each emitter has spawned within one
\* particle of rate * elapsed / 1000, however the time was cut into frames
\* (so an emitter of positive rate spawns once enough time has passed).
C30_SpawnsAtRate ==
  lastFrame.path = "hook"
    => \A i \in 1..Len(lastFrame.spawned) :
         LET due == lastFrame.node.emitters[i].rate * lastFrame.elapsed
             got == 1000 * lastFrame.spawned[i]
         IN got - due < 1000 /\ due - got < 1000

\* ─── Claims about the proposal and vote protocol ────────────────────────
approvals(proposal) == Cardinality({ i \in 1..Len(proposal.votes) : proposal.votes[i].vote = "approve" })

rejections(proposal) == Cardinality({ i \in 1..Len(proposal.votes) : proposal.votes[i].vote = "reject" })

voters(proposal) == { proposal.votes[i].actorId : i \in 1..Len(proposal.votes) }

\* one vote per actor, and the status is what the votes so far make it
ProposalsConsistent ==
  \A id \in DOMAIN storedProposals(agentState) :
    LET proposal == storedProposals(agentState)[id]
    IN /\ Cardinality(voters(proposal)) = Len(proposal.votes)
       /\ proposal.status \in { "pending", "approved", "rejected" }
       /\ proposal.status = "approved" => approvals(proposal) >= proposal.requiresVotes
       /\ proposal.status = "rejected" => rejections(proposal) >= proposal.requiresVotes
       /\ proposal.status = "pending" => /\ approvals(proposal) < proposal.requiresVotes
                                         /\ rejections(proposal) < proposal.requiresVotes

\* what one call may do to the proposals that exist
ProposalsStep ==
  \A id \in DOMAIN storedProposals(agentState) :
    LET before == storedProposals(agentState)[id]
        after == storedProposals(agentState')[id]
        isVoteOnIt == lastAgentCall'.tool = "vote" /\ lastAgentCall'.input.proposalId = id
    IN /\ id \in DOMAIN storedProposals(agentState')
       /\ before.status /= "pending" => after = before
       /\ after.status /= before.status => before.status = "pending"
       /\ (isVoteOnIt /\ lastAgentCall'.actorId \in voters(before))
            => lastAgentCall'.error /= "" /\ agentState' = agentState
       /\ (isVoteOnIt /\ before.status /= "pending")
            => lastAgentCall'.error /= "" /\ agentState' = agentState
       /\ (isVoteOnIt /\ before.status = "pending" /\ lastAgentCall'.actorId \notin voters(before))
            => /\ lastAgentCall'.error = ""
               /\ after.votes = Append(before.votes, [actorId |-> lastAgentCall'.actorId,
                                                       vote |-> lastAgentCall'.input.vote])
       /\ ~isVoteOnIt => after = before

\* C26: a proposal holds at most one vote per actor, a second vote by the same
\* actor is rejected and changes nothing; the status leaves pending only for
\* approved, when the approvals reach requiresVotes, or for rejected, when
\* the rejections reach it; an approved or rejected proposal never changes
\* again and votes on it are rejected.
C26_VoteProtocol == [] ProposalsConsistent /\ [][ProposalsStep]_vars

C26_Witness ==
  /\ lastAgentCall.tool = "vote" /\ lastAgentCall.error = "Proposal already approved"
  /\ 1 \in DOMAIN storedProposals(agentState)
  /\ storedProposals(agentState)[1].requiresVotes = 2
  /\ storedProposals(agentState)[1].status = "approved"
  /\ Len(storedProposals(agentState)[1].votes) = 2

\* ─── Claims about state migration ───────────────────────────────────────
\* what each version string of the universe means as major, minor, patch
numberOf(version) ==
  CASE version = ZeroVersion -> << 0, 0, 0 >>
    [] version = V1_0 -> << 1, 0, 0 >>
    [] version = V1_0_0 -> << 1, 0, 0 >>
    [] version = V1_9_0 -> << 1, 9, 0 >>
    [] version = V1_10_0 -> << 1, 10, 0 >>
    [] version = V2_0_0 -> << 2, 0, 0 >>

precedes(a, b) ==
  \/ a[1] < b[1]
  \/ a[1] = b[1] /\ a[2] < b[2]
  \/ a[1] = b[1] /\ a[2] = b[2] /\ a[3] < b[3]

stateNumber(state) ==
  IF state._version.kind = "string" THEN numberOf(state._version.chars) ELSE << 0, 0, 0 >>

MigratesWhatIsDue ==
  LET input == probe.heap[1]
      result == probe.result
      out == result.heap[result.state]
      from == stateNumber(input)
      current == numberOf(probe.currentVersion)
      target(i) == numberOf(probe.migrations[i].to)
      due == { i \in 1..Len(probe.migrations) :
                 precedes(from, target(i)) /\ ~precedes(current, target(i)) }
  IN /\ result.heap[1] = input
     /\ IF ~precedes(from, current)
        THEN ~result.migrated /\ result.state = 1 /\ result.heap = probe.heap
        ELSE /\ out._version = [kind |-> "string", chars |-> probe.currentVersion]
             /\ result.migrated <=> due /= {}
             /\ Len(out.log) = Cardinality(due)
             /\ { out.log[i] : i \in 1..Len(out.log) } = due
             /\ \A i, j \in 1..Len(out.log) :
                  i < j => ~precedes(target(out.log[j]), target(out.log[i]))

\* C27: migrateState applies exactly the migrations m with stateVersion <
\* m.to <= currentVersion, each once, in ascending order of m.to whatever
\* their order in the array, stamps the result with currentVersion, leaves
\* the input state object as it was, and returns the very state, unmigrated,
\* when its version is at or beyond currentVersion; migrating the returned
\* state again applies nothing.
C27_MigratesInOrder ==
  /\ probe.fn = "migrateState" => MigratesWhatIsDue
  /\ probe.fn = "migrateState again"
       => /\ ~probe.result.migrated
          /\ probe.result.state = probe.state
          /\ probe.result.heap = probe.heap

C27_Witness ==
  /\ probe.fn = "migrateState"
  /\ probe.heap[1]._version.kind = "absent"
  /\ probe.currentVersion = V1_10_0
  /\ Len(probe.migrations) = 3
  /\ probe.migrations[1].to = V1_10_0 /\ probe.migrations[1].inPlace
  /\ probe.migrations[2].to = V1_9_0
  /\ probe.migrations[3].to = V2_0_0
  /\ probe.result.heap[probe.result.state].log = << 2, 1 >>

\* ─── Claims about the clock of a tween ──────────────────────────────────
shows(n) == sameNumber(displayed.value[1], Number(n))

\* C28: whichever path renders it, an armed tween of delay d and duration D
\* shows its `from` value at the time it was armed and its `to` value once
\* d + D ms have passed since then.
C28_RenderedOnArmingClock ==
  displayed.path /= "none"
    => LET tween == armedTween[1]
           since == displayed.at - tween.startedAt[1]
       IN /\ displayed.value /= None
          /\ since = 0 => shows(tween.from)
          /\ since >= OrElse(tween.delay, 0) + tween.duration => shows(tween.to)

====
